---- MODULE Spec2Model ----
(***************************************************************************)
(* Othello engine: the array board (array_utils.py), the bitboard          *)
(* (utils/bitboard_utils.py), the game loop (othello.py), the negamax      *)
(* agent with its transposition table (minmax.py, heuristics.py,           *)
(* utils/zobrist_hashing.py) and the boards of the search tree of the      *)
(* Monte-Carlo agent (search_tree.py).                                     *)
(*                                                                         *)
(* A uint64 bitboard is modelled as the set of its set bits (bit i is      *)
(* square i = 8*row + col), so that & is \cap, | is \cup, ~ is the         *)
(* complement in 0..63 and a shift moves every bit and drops those that    *)
(* leave the 64-bit word.  An int16[8,8] array board is a function         *)
(* row -> col -> {0,1,2}.                                                   *)
(***************************************************************************)
EXTENDS Integers, Sequences, FiniteSets, TLC

VARIABLES
    board,            \* othello.py: the authoritative int16[8,8] board
    bitboard,         \* the same position as (player1_board, player2_board)
    current_player,   \* id of the player to move (1 or 2)
    game_over,        \* simulate_game: loop flag
    winner,           \* simulate_game: return value (-1 while the loop runs)
    moves_applied,    \* number of flip_tiles calls made on board since the opening
    passes_in_row,    \* number of turn switches made since the last applied move
    node,             \* search_tree: (current_player_bb, opponent_bb) of a rollout that plays this game
    agent,            \* the MinimaxPlayer: id, depth, heuristic, shuffle, transposition_table
    last,             \* the last call made on the agent and what it returned
    seen,             \* (board, value) of every full-window negamax call of the agent
    ncalls,           \* number of searches the agent has run
    probe,            \* the last pure-function query on a sampled board and its answer
    timed,            \* iterative_deepening_timed: its locals and where it stands
    threads,          \* func_timeout: the threads started so far, each running mtdf
    players,          \* the agent objects of a simulation: fields and references
    heap,             \* the search states (transposition tables, trees) the agents refer to
    tree              \* search_tree: the arena of one SearchTree

coreVars == <<board, bitboard, current_player, game_over, winner, moves_applied,
              passes_in_row, node, agent, last, seen, ncalls, probe>>

extVars == <<timed, threads, players, heap, tree>>

vars == <<coreVars, extVars>>

\* the game, the agent and the probes: what a step of a tree search leaves alone
coreVars_but_last == <<board, bitboard, current_player, game_over, winner, moves_applied,
                       passes_in_row, node, agent, seen, ncalls, probe>>

----------------------------------------------------------------------------
(* Bounds of the model *)

\* the first MaxPlies plies of the game are explored exhaustively
MaxPlies == 4
\* ... and so are the last EndgameEmpties plies of the recorded game
EndgameEmpties == 6
\* the sampled boards of SpecBoards hold at most MaxDiscs discs
MaxDiscs == 3
\* the MinimaxPlayer plays the recorded game from its last SearchEmpties plies on
SearchEmpties == 3
\* ... or, making no other search than those of its moves, from its last PlayEmpties plies on
PlayEmpties == 5
\* ... searching to a depth of at most MaxDepth
MaxDepth == 4
\* ... and is called directly (negamax, mtdf) at most MaxCalls times
MaxCalls == 2
\* mtdf is given up after MaxProbes probes
MaxProbes == 12

----------------------------------------------------------------------------
(* constants.py *)

INT16_POSINF == 32767
INT16_NEGINF == -32767
FREE_CELL == 0
PLAYER1 == 1
PLAYER2 == 2

DIRECTIONS == << <<-1, 0>>, <<-1, 1>>, <<0, 1>>, <<1, 1>>,
                 <<1, 0>>, <<1, -1>>, <<0, -1>>, <<-1, -1>> >>

Rows == 0..7
Cols == 0..7
Squares == 0..63

\* (0 <= r < 8 and 0 <= c < 8)
InBoard(r, c) == r >= 0 /\ r < 8 /\ c >= 0 /\ c < 8

----------------------------------------------------------------------------
(* array_utils.py : the int16[8,8] board *)

\* the while loop of check_line: walks over opponent tiles, counting them
RECURSIVE array_check_line_walk(_, _, _, _, _, _, _)
array_check_line_walk(r, c, dr, dc, opponent, b, opponent_tiles) ==
    IF InBoard(r, c) /\ b[r][c] = opponent
    THEN array_check_line_walk(r + dr, c + dc, dr, dc, opponent, b, opponent_tiles + 1)
    ELSE <<r, c, opponent_tiles>>

array_check_line(row, col, direction, player, b) ==
    LET dr == direction[1]
        dc == direction[2]
        opponent == 3 - player
        e == array_check_line_walk(row + dr, col + dc, dr, dc, opponent, b, 0)
    IN  InBoard(e[1], e[2]) /\ b[e[1]][e[2]] = player /\ e[3] > 0

array_is_valid_move(move, player, b) ==
    IF b[move[1]][move[2]] # FREE_CELL
    THEN FALSE
    ELSE \E d \in 1..8 : array_check_line(move[1], move[2], DIRECTIONS[d], player, b)

\* the squares of a set as (row, col) rows in row-major order: the order in
\* which the double loop "for r in range(8): for c in range(8)" meets them
RECURSIVE RowMajorOf(_)
RowMajorOf(S) ==
    IF S = {} THEN <<>>
    ELSE CHOOSE s \in {<<<<i \div 8, i % 8>>>> \o RowMajorOf(S \ {i}) :
                         i \in {x \in S : \A y \in S : x <= y}} : TRUE

\* (S is computed once, whatever the number of rows)
RowMajor(S) == CHOOSE s \in {RowMajorOf(T) : T \in {S}} : TRUE

array_get_possible_moves(player, b) ==
    RowMajor({i \in Squares :
                /\ b[i \div 8][i % 8] = FREE_CELL
                /\ array_is_valid_move(<<i \div 8, i % 8>>, player, b)})

\* the inner while loop of flip_tiles: flips until one of the player's tiles
RECURSIVE array_flip_line(_, _, _, _, _, _)
array_flip_line(rr, cc, dr, dc, player, b) ==
    IF InBoard(rr, cc) /\ b[rr][cc] # player
    THEN array_flip_line(rr + dr, cc + dc, dr, dc, player,
                         [b EXCEPT ![rr][cc] = player])
    ELSE b

\* the loop of flip_tiles over DIRECTIONS, on the board as mutated so far
RECURSIVE array_flip_directions(_, _, _, _, _)
array_flip_directions(d, r, c, player, b) ==
    IF d > 8 THEN b
    ELSE LET dir == DIRECTIONS[d]
             flipped == IF array_check_line(r, c, dir, player, b)
                        THEN array_flip_line(r + dir[1], c + dir[2], dir[1], dir[2], player, b)
                        ELSE b
         IN  \* (the board of each iteration is computed once)
             CHOOSE out \in {array_flip_directions(d + 1, r, c, player, nb) :
                                nb \in {flipped}} : TRUE

array_flip_tiles(move, player, b) ==
    array_flip_directions(1, move[1], move[2], player,
                          [b EXCEPT ![move[1]][move[2]] = player])

\* np.count_nonzero(board == v)
count_nonzero(b, v) == Cardinality({i \in Squares : b[i \div 8][i % 8] = v})

\* Othello.__init__ / simulate_game: board[3:5, 3:5] = [[2, 1], [1, 2]]
OpeningBoard ==
    [r \in Rows |-> [c \in Cols |->
        IF <<r, c>> \in {<<3, 3>>, <<4, 4>>} THEN 2
        ELSE IF <<r, c>> \in {<<3, 4>>, <<4, 3>>} THEN 1
        ELSE 0]]

----------------------------------------------------------------------------
(* utils/bitboard_utils.py : the (uint64, uint64) board *)

\* mask << n on a uint64: bits pushed past bit 63 are lost
ShiftLeft(mask, n) == {i + n : i \in {j \in mask : j + n <= 63}}
\* mask >> n on a uint64
ShiftRight(mask, n) == {i - n : i \in {j \in mask : j >= n}}

\* 0x00FFFFFFFFFFFFFF
MASK_00FF == 0..55
\* 0xFFFFFFFFFFFFFF00
MASK_FF00 == 8..63
\* 0xFEFEFEFEFEFEFEFE : every bit but those of column 0
MASK_FEFE == {i \in Squares : i % 8 # 0}
\* 0x7F7F7F7F7F7F7F7F : every bit but those of column 7
MASK_7F7F == {i \in Squares : i % 8 # 7}

array_to_bitboard(b) ==
    << {i \in Squares : b[i \div 8][i % 8] = 1},
       {i \in Squares : b[i \div 8][i % 8] = 2} >>

get_player_board(bb, player) == << bb[player], bb[3 - player] >>

count_ones(x) == Cardinality(x)

shift_n(mask) == ShiftRight(mask, 8) \cap MASK_00FF
shift_s(mask) == ShiftLeft(mask, 8) \cap MASK_FF00
\* shift_e masking column 7 instead of column 0
shift_e_wrong_mask(mask) == ShiftLeft(mask, 1) \cap MASK_7F7F
shift_e(mask) == ShiftLeft(mask, 1) \cap MASK_FEFE
shift_o(mask) == ShiftRight(mask, 1) \cap MASK_7F7F
shift_ne(mask) == (ShiftRight(mask, 7) \cap MASK_FEFE) \cap MASK_00FF
shift_no(mask) == (ShiftRight(mask, 9) \cap MASK_7F7F) \cap MASK_00FF
shift_se(mask) == (ShiftLeft(mask, 9) \cap MASK_FEFE) \cap MASK_FF00
shift_so(mask) == (ShiftLeft(mask, 7) \cap MASK_7F7F) \cap MASK_FF00

find_empty_neighbors_of_player(player_id, bb) ==
    LET player_board == bb[player_id]
        opponent_board == bb[3 - player_id]
        all_players_board == player_board \cup opponent_board
        empty_board == Squares \ all_players_board
    IN  empty_board \cap
          (shift_n(player_board) \cup shift_s(player_board) \cup shift_e(player_board)
           \cup shift_o(player_board) \cup shift_ne(player_board) \cup shift_no(player_board)
           \cup shift_se(player_board) \cup shift_so(player_board))

\* the while loop of check_line
RECURSIVE check_line_walk(_, _, _, _, _, _)
check_line_walk(r, c, dr, dc, opponent_board, opponent_tiles) ==
    IF InBoard(r, c) /\ (8 * r + c) \in opponent_board
    THEN check_line_walk(r + dr, c + dc, dr, dc, opponent_board, opponent_tiles + 1)
    ELSE <<r, c, opponent_tiles>>

\* check_line that accepts a line holding no opponent tile
check_line_any_run(row, col, direction, player, bb) ==
    LET dr == DIRECTIONS[direction + 1][1]
        dc == DIRECTIONS[direction + 1][2]
        pb == get_player_board(bb, player)
        e == check_line_walk(row + dr, col + dc, dr, dc, pb[2], 0)
    IN  InBoard(e[1], e[2]) /\ (8 * e[1] + e[2]) \in pb[1]

check_line(row, col, direction, player, bb) ==
    LET dr == DIRECTIONS[direction + 1][1]
        dc == DIRECTIONS[direction + 1][2]
        pb == get_player_board(bb, player)
        e == check_line_walk(row + dr, col + dc, dr, dc, pb[2], 0)
    IN  InBoard(e[1], e[2]) /\ (8 * e[1] + e[2]) \in pb[1] /\ e[3] > 0

is_valid_move(move, player, bb) ==
    IF (8 * move[1] + move[2]) \in (bb[1] \cup bb[2])
    THEN FALSE
    ELSE \E direction \in 0..7 : check_line(move[1], move[2], direction, player, bb)

\* np.zeros((35, 2)): the rows get_possible_moves can hold
MOVES_CAPACITY == 35

\* the double loop collects the valid candidate cells in row-major order;
\* moves[:move_count] keeps at most the rows the array has
get_possible_moves(player, bb) ==
    LET opponent_id == 3 - player
        empty_neighbors_opponent == find_empty_neighbors_of_player(opponent_id, bb)
        moves == RowMajor({i \in empty_neighbors_opponent :
                             is_valid_move(<<i \div 8, i % 8>>, player, bb)})
    IN  IF Len(moves) <= MOVES_CAPACITY THEN moves
        ELSE SubSeq(moves, 1, MOVES_CAPACITY)

\* flip_line that sets the player's bit and leaves the opponent's bit set
RECURSIVE flip_line_keep(_, _, _, _, _, _)
flip_line_keep(r, c, dr, dc, player_board, opponent_board) ==
    IF InBoard(r, c) /\ (8 * r + c) \in opponent_board /\ (8 * r + c) \notin player_board
    THEN flip_line_keep(r + dr, c + dc, dr, dc,
                        player_board \cup {8 * r + c}, opponent_board)
    ELSE <<player_board, opponent_board>>

\* the inner while loop of flip_tiles: <<player_board, opponent_board>> after the flips
RECURSIVE flip_line(_, _, _, _, _, _)
flip_line(r, c, dr, dc, player_board, opponent_board) ==
    IF InBoard(r, c) /\ (8 * r + c) \in opponent_board
    THEN flip_line(r + dr, c + dc, dr, dc,
                   player_board \cup {8 * r + c}, opponent_board \ {8 * r + c})
    ELSE <<player_board, opponent_board>>

\* the loop of flip_tiles over the 8 directions; check_line reads the board given
RECURSIVE flip_directions(_, _, _, _, _, _, _)
flip_directions(direction, row, col, player, bb, player_board, opponent_board) ==
    IF direction > 7 THEN <<player_board, opponent_board>>
    ELSE LET dr == DIRECTIONS[direction + 1][1]
             dc == DIRECTIONS[direction + 1][2]
             flipped == IF check_line(row, col, direction, player, bb)
                        THEN flip_line(row + dr, col + dc, dr, dc, player_board, opponent_board)
                        ELSE <<player_board, opponent_board>>
         IN  \* (the boards of each iteration are computed once)
             CHOOSE out \in {flip_directions(direction + 1, row, col, player, bb, nb[1], nb[2]) :
                                nb \in {flipped}} : TRUE

\* flip_tiles that flips the lines and does not set the bit of the move
flip_tiles_unplaced(move, player, bb) ==
    LET pb == get_player_board(bb, player)
        r == flip_directions(0, move[1], move[2], player, bb, pb[1], pb[2])
    IN  IF player = 1 THEN <<r[1], r[2]>> ELSE <<r[2], r[1]>>

flip_tiles(move, player, bb) ==
    LET pb == get_player_board(bb, player)
        placed == pb[1] \cup {8 * move[1] + move[2]}
        r == flip_directions(0, move[1], move[2], player, bb, placed, pb[2])
    IN  IF player = 1 THEN <<r[1], r[2]>> ELSE <<r[2], r[1]>>

----------------------------------------------------------------------------
(* search_tree.py : the boards of a tree node, relative to the side to move *)

\* bitboard_utils.place_disks: the opponent discs bracketed between the placed
\* disc and a disc of the mover, in the 8 directions
place_disks(selected_square, player_board, opponent_bb) ==
    LET row == selected_square \div 8
        col == selected_square % 8
        r == flip_directions(0, row, col, 1, <<player_board, opponent_bb>>,
                             player_board, opponent_bb)
    IN  opponent_bb \ r[2]

\* x ^ y on uint64
Xor(x, y) == (x \ y) \cup (y \ x)

\* compute_boards(tree, node_id, move) for a node holding nd = <<player, opponent>>
compute_boards(nd, move) ==
    IF move = -1
    THEN << nd[2], nd[1] >>
    ELSE LET opponent_bb == nd[2]
             selected_square == move
             flipped_disks == place_disks(selected_square, nd[1], opponent_bb)
             new_player_board == nd[1] \cup ({selected_square} \cup flipped_disks)
             new_opponent_board == Xor(opponent_bb, flipped_disks)
         IN  << new_player_board, new_opponent_board >>

\* expand: tree.opponent_boards[new], tree.player_boards[new] = compute_boards(...)
child_boards(nd, move) ==
    LET cb == compute_boards(nd, move)
    IN  << cb[2], cb[1] >>

\* expand: get_moves_index(possible_moves(player, opponent, empty)), or [-1]
tree_moves(nd) ==
    LET moves == get_possible_moves(1, nd)
    IN  IF Len(moves) = 0 THEN {-1}
        ELSE {8 * moves[i][1] + moves[i][2] : i \in 1..Len(moves)}

\* default_policy: the branch of the rollout loop taken without a valid move
rollout_pass(nd) == << nd[2], nd[1] >>

\* default_policy: the rest of the rollout loop, for the move chosen
rollout_move(nd, move) ==
    LET current_player_bb == nd[1]
        opponent_bb == nd[2]
        flipped_disks == place_disks(move, current_player_bb, opponent_bb)
        new_player_board == current_player_bb \cup ({move} \cup flipped_disks)
        new_opponent_board == Xor(opponent_bb, flipped_disks)
    IN  << new_opponent_board, new_player_board >>

----------------------------------------------------------------------------
(* othello.py : simulate_game between two RandomAgents *)

SeqToSet(s) == {s[i] : i \in 1..Len(s)}

\* a game played by two RandomAgents, recorded move by move (the passes are
\* not recorded: simulate_game switches the player when it has no move)
RecordedGame ==
    <<
       <<5, 4>>, <<3, 5>>, <<2, 3>>, <<5, 3>>, <<5, 5>>, <<5, 6>>, <<2, 6>>, <<5, 2>>,
       <<6, 4>>, <<7, 4>>, <<6, 3>>, <<1, 2>>, <<2, 5>>, <<2, 4>>, <<6, 6>>, <<6, 2>>,
       <<7, 3>>, <<6, 5>>, <<7, 1>>, <<7, 2>>, <<2, 2>>, <<3, 2>>, <<0, 1>>, <<4, 6>>,
       <<3, 1>>, <<6, 7>>, <<7, 6>>, <<4, 5>>, <<3, 6>>, <<7, 0>>, <<2, 1>>, <<7, 5>>,
       <<6, 1>>, <<5, 0>>, <<6, 0>>, <<2, 7>>, <<3, 7>>, <<4, 7>>, <<4, 0>>, <<1, 3>>,
       <<0, 4>>, <<1, 7>>, <<1, 4>>, <<3, 0>>, <<4, 1>>, <<1, 6>>, <<4, 2>>, <<1, 0>>,
       <<0, 6>>, <<0, 3>>, <<0, 2>>, <<5, 7>>, <<2, 0>>, <<0, 7>>, <<0, 5>>, <<7, 7>>,
       <<0, 0>>
    >>
\* the position simulate_game is in after the first k moves of game g were applied
RECURSIVE Replay(_, _, _, _)
Replay(b, player, g, k) ==
    IF k = 0 THEN [board |-> b, player |-> player]
    ELSE LET mover == IF array_get_possible_moves(player, b) = <<>>
                      THEN 3 - player ELSE player
             nb == array_flip_tiles(Head(g), mover, b)
         IN  IF Head(g) \in SeqToSet(array_get_possible_moves(mover, b)) /\ nb \in [Rows -> [Cols -> 0..2]]
             THEN Replay(nb, 3 - mover, Tail(g), k - 1)
             ELSE [board |-> b, player |-> 0]

\* move in current_player_valid_moves, on a numpy array of rows:
\* (valid_moves == move).any()
NumpyContains(valid_moves, move) ==
    \E i \in 1..Len(valid_moves) :
        valid_moves[i][1] = move[1] \/ valid_moves[i][2] = move[2]

\* the result with the two comparisons exchanged
simulate_game_result_swapped(b) ==
    LET count_1 == count_nonzero(b, 1)
        count_2 == count_nonzero(b, 2)
    IN  IF count_1 < count_2 THEN 1
        ELSE IF count_1 > count_2 THEN 2
        ELSE 0

\* count_1 > count_2 -> 1, count_1 < count_2 -> 2, else 0
simulate_game_result(b) ==
    LET count_1 == count_nonzero(b, 1)
        count_2 == count_nonzero(b, 2)
    IN  IF count_1 > count_2 THEN 1
        ELSE IF count_1 < count_2 THEN 2
        ELSE 0

\* the plies the model explores: the opening ones and the last ones
Explored(n) == n < MaxPlies \/ n >= 60 - EndgameEmpties

NoAgent == [id |-> 0, depth |-> 0, heuristic |-> "none", shuffle |-> 0,
            transposition_table |-> <<>>]
NoCall == [op |-> "none"]
NoProbe == [op |-> "none"]

InitGame(k) ==
    LET p == Replay(OpeningBoard, PLAYER1, RecordedGame, k)
    IN  /\ board = p.board
        /\ bitboard = array_to_bitboard(p.board)
        /\ current_player = p.player
        /\ node = get_player_board(array_to_bitboard(p.board), p.player)
        /\ game_over = FALSE
        /\ winner = -1
        /\ moves_applied = k
        /\ passes_in_row = 0

NoTimed == [pc |-> "none"]
NoTree == [nodes_count |-> 0]

\* nothing but the game and the agent of the specification at hand
NoExt ==
    /\ timed = NoTimed
    /\ threads = <<>>
    /\ players = <<>>
    /\ heap = <<>>
    /\ tree = NoTree

NoSearch ==
    /\ agent = NoAgent
    /\ last = NoCall
    /\ seen = {}
    /\ ncalls = 0
    /\ probe = NoProbe
    /\ NoExt

Init ==
    /\ \E k \in {0, 60 - EndgameEmpties} : InitGame(k)
    /\ NoSearch

\* the recorded game from its last EndgameEmpties plies on
InitEndgame ==
    /\ InitGame(60 - EndgameEmpties)
    /\ NoSearch

\* RandomAgent.get_move: random.choice(valid_moves), or None
RandomAgent_get_move(id, b) ==
    LET valid_moves == array_get_possible_moves(id, b)
    IN  IF Len(valid_moves) > 0 THEN SeqToSet(valid_moves) ELSE {<<>>}

\* one iteration of the loop that ends it: neither side has a move
SimGameOver ==
    /\ ~game_over
    /\ array_get_possible_moves(current_player, board) = <<>>
    /\ array_get_possible_moves(3 - current_player, board) = <<>>
    /\ game_over' = TRUE
    /\ winner' = simulate_game_result(board)
    /\ UNCHANGED <<board, bitboard, current_player, moves_applied, passes_in_row,
                   node, agent, last, seen, ncalls, probe>>
    /\ UNCHANGED extVars

\* one iteration that only switches the player
SimPass ==
    /\ ~game_over
    /\ array_get_possible_moves(current_player, board) = <<>>
    /\ array_get_possible_moves(3 - current_player, board) # <<>>
    /\ current_player' = 3 - current_player
    /\ passes_in_row' = passes_in_row + 1
    /\ node' = rollout_pass(node)
    /\ UNCHANGED <<board, bitboard, game_over, winner, moves_applied,
                   agent, last, seen, ncalls, probe>>
    /\ UNCHANGED extVars

\* one iteration that asks the current player for a move and applies it
SimMove ==
    /\ ~game_over
    /\ Explored(moves_applied)
    /\ array_get_possible_moves(current_player, board) # <<>>
    /\ \E move \in RandomAgent_get_move(current_player, board) :
          IF move # <<>> /\ NumpyContains(array_get_possible_moves(current_player, board), move)
          THEN /\ board' = array_flip_tiles(move, current_player, board)
               /\ bitboard' = flip_tiles(move, current_player, bitboard)
               /\ node' = rollout_move(node, 8 * move[1] + move[2])
               /\ current_player' = 3 - current_player
               /\ moves_applied' = moves_applied + 1
               /\ passes_in_row' = 0
          ELSE UNCHANGED <<board, bitboard, node, current_player, moves_applied,
                           passes_in_row>>
    /\ UNCHANGED <<game_over, winner, agent, last, seen, ncalls, probe>>
    /\ UNCHANGED extVars

Next == SimGameOver \/ SimPass \/ SimMove

Spec == Init /\ [][Next]_vars

\* the loop of simulate_game runs on until it breaks
FairSpec == InitEndgame /\ [][Next]_vars /\ WF_vars(Next)

----------------------------------------------------------------------------
(* heuristics.py : the evaluators of the MinimaxPlayer *)

STATIC_WEIGHTS ==
    << << 4, -3,  2,  2,  2,  2, -3,  4>>,
       <<-3, -4, -1, -1, -1, -1, -4, -3>>,
       << 2, -1,  1,  0,  0,  1, -1,  2>>,
       << 2, -1,  0,  1,  1,  0, -1,  2>>,
       << 2, -1,  0,  1,  1,  0, -1,  2>>,
       << 2, -1,  1,  0,  0,  1, -1,  2>>,
       <<-3, -4, -1, -1, -1, -1, -4, -3>>,
       << 4, -3,  2,  2,  2,  2, -3,  4>> >>

\* one row of mask * STATIC_WEIGHTS for mask = (board == v), summed
masked_weights_row(b, v, r) ==
    LET w(c) == IF b[r][c] = v THEN STATIC_WEIGHTS[r + 1][c + 1] ELSE 0
    IN  w(0) + w(1) + w(2) + w(3) + w(4) + w(5) + w(6) + w(7)

\* np.sum(mask * STATIC_WEIGHTS) for mask = (board == v)
masked_weights_sum(b, v) ==
    masked_weights_row(b, v, 0) + masked_weights_row(b, v, 1)
    + masked_weights_row(b, v, 2) + masked_weights_row(b, v, 3)
    + masked_weights_row(b, v, 4) + masked_weights_row(b, v, 5)
    + masked_weights_row(b, v, 6) + masked_weights_row(b, v, 7)

static_weights_heuristic(b, player_id) ==
    LET player_score == masked_weights_sum(b, player_id)
        opponent_score == masked_weights_sum(b, 3 - player_id)
    IN  player_score - opponent_score

\* int16(x / y) for y > 0: the float quotient truncated toward zero
TruncDiv(x, y) == IF x >= 0 THEN x \div y ELSE -((-x) \div y)

disk_parity_heuristic(player_disks, opponent_disks) ==
    TruncDiv(100 * (player_disks - opponent_disks), player_disks + opponent_disks)

disk_parity_heuristic_standalone(b, player_id) ==
    LET bb == array_to_bitboard(b)
        pb == get_player_board(bb, player_id)
        player_disks == count_ones(pb[1])
        opponent_disks == count_ones(pb[2])
    IN  disk_parity_heuristic(player_disks, opponent_disks)

\* disk_parity_heuristic raises ZeroDivisionError: the division is by
\* player_disks + opponent_disks, and njit raises on a zero divisor
disk_parity_heuristic_raises(player_disks, opponent_disks) ==
    player_disks + opponent_disks = 0

RECURSIVE Gcd(_, _)
Gcd(a, b) == IF b = 0 THEN a ELSE Gcd(b, a % b)

Abs(x) == IF x >= 0 THEN x ELSE -x

\* 100 * (x - y) / (x + y) as a float: the fraction it is the nearest double
\* of, in lowest terms; 0 when x + y = 0 (the else branch of the callers)
Percent(x, y) ==
    IF x + y = 0 \/ x = y THEN <<0, 1>>
    ELSE LET g == Gcd(100 * Abs(x - y), x + y)
         IN  << (100 * (x - y)) \div g, (x + y) \div g >>

\* the pairs of floats (a, p) for which (a + p) / 2 is computed just below its
\* exact value, an integer, so that int16() of it is one nearer to zero
MOBILITY_ROUNDED_DOWN ==
    {
      <<-2700, 29, 1250, 29>>, <<-2600, 27, 1250, 27>>, <<-2100, 29, 650, 29>>,
      <<-1900, 23, 750, 23>>, <<-1900, 23, 980, 23>>, <<-1600, 23, 1140, 23>>,
      <<-1550, 17, 700, 17>>, <<-1400, 23, 1860, 23>>, <<-1220, 13, 700, 13>>,
      <<-1150, 17, 300, 17>>, <<-1150, 17, 980, 17>>, <<-1100, 23, 2020, 23>>,
      <<-1100, 23, 2250, 23>>, <<-1060, 11, 400, 11>>, <<-1060, 11, 620, 11>>,
      <<-1060, 13, 540, 13>>, <<-1060, 13, 800, 13>>, <<-1000, 29, 2450, 29>>,
      <<-950, 11, 400, 11>>, <<-950, 11, 620, 11>>, <<-950, 17, 1460, 17>>,
      <<-900, 11, 460, 11>>, <<-900, 11, 680, 11>>, <<-900, 19, 1660, 19>>,
      <<-900, 19, 1850, 19>>, <<-900, 29, 2350, 29>>, <<-850, 11, 300, 11>>,
      <<-850, 11, 520, 11>>, <<-800, 13, 1060, 13>>, <<-740, 11, 80, 11>>,
      <<-740, 11, 300, 11>>, <<-740, 11, 520, 11>>, <<-740, 13, 350, 13>>, <<-700, 9, 160, 9>>,
      <<-700, 9, 250, 9>>, <<-700, 9, 340, 9>>, <<-700, 9, 520, 9>>, <<-700, 13, 1220, 13>>,
      <<-700, 17, 1380, 17>>, <<-700, 17, 1550, 17>>, <<-700, 19, 1460, 19>>,
      <<-700, 19, 1650, 19>>, <<-680, 7, 260, 7>>, <<-680, 7, 400, 7>>, <<-660, 13, 400, 13>>,
      <<-620, 11, 840, 11>>, <<-620, 11, 950, 11>>, <<-620, 11, 1060, 11>>,
      <<-600, 7, 180, 7>>, <<-600, 7, 250, 7>>, <<-600, 7, 320, 7>>, <<-575, 6, 275, 6>>,
      <<-575, 7, 225, 7>>, <<-540, 7, 260, 7>>, <<-540, 7, 400, 7>>, <<-540, 13, 1060, 13>>,
      <<-460, 7, 40, 7>>, <<-460, 7, 180, 7>>, <<-460, 7, 250, 7>>, <<-460, 7, 320, 7>>,
      <<-460, 11, 900, 11>>, <<-450, 11, 340, 11>>, <<-420, 11, 200, 11>>, <<-400, 7, 540, 7>>,
      <<-400, 7, 680, 7>>, <<-400, 11, 840, 11>>, <<-400, 11, 950, 11>>,
      <<-400, 11, 1060, 11>>, <<-400, 13, 660, 13>>, <<-400, 27, 1750, 27>>,
      <<-350, 9, 80, 9>>, <<-350, 9, 260, 9>>, <<-350, 13, 740, 13>>, <<-350, 17, 860, 17>>,
      <<-340, 7, 200, 7>>, <<-340, 9, 700, 9>>, <<-340, 9, 880, 9>>, <<-340, 11, 450, 11>>,
      <<-340, 11, 560, 11>>, <<-320, 7, 460, 7>>, <<-320, 7, 600, 7>>, <<-300, 7, 160, 7>>,
      <<-300, 11, 740, 11>>, <<-300, 11, 850, 11>>, <<-300, 11, 960, 11>>,
      <<-300, 17, 1150, 17>>, <<-300, 19, 1250, 19>>, <<-280, 3, 100, 3>>, <<-280, 3, 124, 3>>,
      <<-280, 3, 130, 3>>, <<-280, 3, 148, 3>>, <<-280, 3, 160, 3>>, <<-280, 3, 172, 3>>,
      <<-280, 3, 190, 3>>, <<-275, 6, 575, 6>>, <<-260, 7, 540, 7>>, <<-260, 7, 680, 7>>,
      <<-260, 9, 350, 9>>, <<-260, 9, 440, 9>>, <<-260, 11, 480, 11>>, <<-250, 3, 100, 3>>,
      <<-250, 3, 124, 3>>, <<-250, 3, 130, 3>>, <<-250, 3, 148, 3>>, <<-250, 3, 160, 3>>,
      <<-250, 3, 172, 3>>, <<-250, 3, 190, 3>>, <<-250, 7, 460, 7>>, <<-250, 7, 600, 7>>,
      <<-250, 9, 700, 9>>, <<-225, 7, 575, 7>>, <<-220, 3, 28, 3>>, <<-220, 3, 40, 3>>,
      <<-220, 3, 100, 3>>, <<-220, 3, 124, 3>>, <<-220, 3, 130, 3>>, <<-220, 3, 148, 3>>,
      <<-220, 3, 160, 3>>, <<-220, 3, 172, 3>>, <<-220, 3, 190, 3>>, <<-200, 7, 340, 7>>,
      <<-200, 11, 420, 11>>, <<-200, 21, 1460, 21>>, <<-190, 3, 196, 3>>, <<-190, 3, 220, 3>>,
      <<-190, 3, 244, 3>>, <<-190, 3, 250, 3>>, <<-190, 3, 268, 3>>, <<-190, 3, 280, 3>>,
      <<-190, 3, 292, 3>>, <<-180, 7, 460, 7>>, <<-180, 7, 600, 7>>, <<-175, 3, 205, 3>>,
      <<-175, 3, 235, 3>>, <<-175, 3, 265, 3>>, <<-175, 3, 295, 3>>, <<-170, 3, 80, 3>>,
      <<-170, 3, 92, 3>>, <<-160, 3, 196, 3>>, <<-160, 3, 220, 3>>, <<-160, 3, 244, 3>>,
      <<-160, 3, 250, 3>>, <<-160, 3, 268, 3>>, <<-160, 3, 280, 3>>, <<-160, 3, 292, 3>>,
      <<-160, 7, 300, 7>>, <<-150, 7, 80, 7>>, <<-150, 11, 480, 11>>, <<-150, 17, 660, 17>>,
      <<-140, 3, 50, 3>>, <<-140, 3, 68, 3>>, <<-140, 3, 80, 3>>, <<-140, 3, 92, 3>>,
      <<-130, 3, 196, 3>>, <<-130, 3, 220, 3>>, <<-130, 3, 244, 3>>, <<-130, 3, 250, 3>>,
      <<-130, 3, 268, 3>>, <<-130, 3, 280, 3>>, <<-130, 3, 292, 3>>, <<-125, 3, 65, 3>>,
      <<-125, 3, 95, 3>>, <<-110, 3, 20, 3>>, <<-110, 3, 50, 3>>, <<-110, 3, 68, 3>>,
      <<-110, 3, 80, 3>>, <<-110, 3, 92, 3>>, <<-100, 3, 196, 3>>, <<-100, 3, 220, 3>>,
      <<-100, 3, 244, 3>>, <<-100, 3, 250, 3>>, <<-100, 3, 268, 3>>, <<-100, 3, 280, 3>>,
      <<-100, 3, 292, 3>>, <<-80, 3, 110, 3>>, <<-80, 3, 116, 3>>, <<-80, 3, 140, 3>>,
      <<-80, 3, 164, 3>>, <<-80, 3, 170, 3>>, <<-80, 7, 150, 7>>, <<-70, 3, 28, 3>>,
      <<-70, 3, 40, 3>>, <<-50, 3, 110, 3>>, <<-50, 3, 116, 3>>, <<-50, 3, 140, 3>>,
      <<-40, 3, 52, 3>>, <<-40, 3, 70, 3>>, <<-40, 3, 76, 3>>, <<-40, 3, 196, 3>>,
      <<-40, 3, 220, 3>>, <<-40, 7, 460, 7>>, <<-25, 3, 55, 3>>, <<-25, 3, 205, 3>>,
      <<-20, 3, 44, 3>>, <<-20, 3, 110, 3>>, <<-20, 3, 116, 3>>, <<-10, 3, 52, 3>>,
      <<-10, 3, 196, 3>>, <<10, 3, -196, 3>>, <<10, 3, -52, 3>>, <<20, 3, -116, 3>>,
      <<20, 3, -110, 3>>, <<20, 3, -44, 3>>, <<25, 3, -205, 3>>, <<25, 3, -55, 3>>,
      <<40, 3, -220, 3>>, <<40, 3, -196, 3>>, <<40, 3, -76, 3>>, <<40, 3, -70, 3>>,
      <<40, 3, -52, 3>>, <<40, 7, -460, 7>>, <<50, 3, -140, 3>>, <<50, 3, -116, 3>>,
      <<50, 3, -110, 3>>, <<70, 3, -40, 3>>, <<70, 3, -28, 3>>, <<80, 3, -170, 3>>,
      <<80, 3, -164, 3>>, <<80, 3, -140, 3>>, <<80, 3, -116, 3>>, <<80, 3, -110, 3>>,
      <<80, 7, -150, 7>>, <<100, 3, -292, 3>>, <<100, 3, -280, 3>>, <<100, 3, -268, 3>>,
      <<100, 3, -250, 3>>, <<100, 3, -244, 3>>, <<100, 3, -220, 3>>, <<100, 3, -196, 3>>,
      <<110, 3, -92, 3>>, <<110, 3, -80, 3>>, <<110, 3, -68, 3>>, <<110, 3, -50, 3>>,
      <<110, 3, -20, 3>>, <<125, 3, -95, 3>>, <<125, 3, -65, 3>>, <<130, 3, -292, 3>>,
      <<130, 3, -280, 3>>, <<130, 3, -268, 3>>, <<130, 3, -250, 3>>, <<130, 3, -244, 3>>,
      <<130, 3, -220, 3>>, <<130, 3, -196, 3>>, <<140, 3, -92, 3>>, <<140, 3, -80, 3>>,
      <<140, 3, -68, 3>>, <<140, 3, -50, 3>>, <<150, 7, -80, 7>>, <<150, 11, -480, 11>>,
      <<150, 17, -660, 17>>, <<160, 3, -292, 3>>, <<160, 3, -280, 3>>, <<160, 3, -268, 3>>,
      <<160, 3, -250, 3>>, <<160, 3, -244, 3>>, <<160, 3, -220, 3>>, <<160, 3, -196, 3>>,
      <<160, 7, -300, 7>>, <<170, 3, -92, 3>>, <<170, 3, -80, 3>>, <<175, 3, -295, 3>>,
      <<175, 3, -265, 3>>, <<175, 3, -235, 3>>, <<175, 3, -205, 3>>, <<180, 7, -600, 7>>,
      <<180, 7, -460, 7>>, <<190, 3, -292, 3>>, <<190, 3, -280, 3>>, <<190, 3, -268, 3>>,
      <<190, 3, -250, 3>>, <<190, 3, -244, 3>>, <<190, 3, -220, 3>>, <<190, 3, -196, 3>>,
      <<200, 7, -340, 7>>, <<200, 11, -420, 11>>, <<200, 21, -1460, 21>>, <<220, 3, -190, 3>>,
      <<220, 3, -172, 3>>, <<220, 3, -160, 3>>, <<220, 3, -148, 3>>, <<220, 3, -130, 3>>,
      <<220, 3, -124, 3>>, <<220, 3, -100, 3>>, <<220, 3, -40, 3>>, <<220, 3, -28, 3>>,
      <<225, 7, -575, 7>>, <<250, 3, -190, 3>>, <<250, 3, -172, 3>>, <<250, 3, -160, 3>>,
      <<250, 3, -148, 3>>, <<250, 3, -130, 3>>, <<250, 3, -124, 3>>, <<250, 3, -100, 3>>,
      <<250, 7, -600, 7>>, <<250, 7, -460, 7>>, <<250, 9, -700, 9>>, <<260, 7, -680, 7>>,
      <<260, 7, -540, 7>>, <<260, 9, -440, 9>>, <<260, 9, -350, 9>>, <<260, 11, -480, 11>>,
      <<275, 6, -575, 6>>, <<280, 3, -190, 3>>, <<280, 3, -172, 3>>, <<280, 3, -160, 3>>,
      <<280, 3, -148, 3>>, <<280, 3, -130, 3>>, <<280, 3, -124, 3>>, <<280, 3, -100, 3>>,
      <<300, 7, -160, 7>>, <<300, 11, -960, 11>>, <<300, 11, -850, 11>>, <<300, 11, -740, 11>>,
      <<300, 17, -1150, 17>>, <<300, 19, -1250, 19>>, <<320, 7, -600, 7>>, <<320, 7, -460, 7>>,
      <<340, 7, -200, 7>>, <<340, 9, -880, 9>>, <<340, 9, -700, 9>>, <<340, 11, -560, 11>>,
      <<340, 11, -450, 11>>, <<350, 9, -260, 9>>, <<350, 9, -80, 9>>, <<350, 13, -740, 13>>,
      <<350, 17, -860, 17>>, <<400, 7, -680, 7>>, <<400, 7, -540, 7>>, <<400, 11, -1060, 11>>,
      <<400, 11, -950, 11>>, <<400, 11, -840, 11>>, <<400, 13, -660, 13>>,
      <<400, 27, -1750, 27>>, <<420, 11, -200, 11>>, <<450, 11, -340, 11>>,
      <<460, 7, -320, 7>>, <<460, 7, -250, 7>>, <<460, 7, -180, 7>>, <<460, 7, -40, 7>>,
      <<460, 11, -900, 11>>, <<540, 7, -400, 7>>, <<540, 7, -260, 7>>, <<540, 13, -1060, 13>>,
      <<575, 6, -275, 6>>, <<575, 7, -225, 7>>, <<600, 7, -320, 7>>, <<600, 7, -250, 7>>,
      <<600, 7, -180, 7>>, <<620, 11, -1060, 11>>, <<620, 11, -950, 11>>,
      <<620, 11, -840, 11>>, <<660, 13, -400, 13>>, <<680, 7, -400, 7>>, <<680, 7, -260, 7>>,
      <<700, 9, -520, 9>>, <<700, 9, -340, 9>>, <<700, 9, -250, 9>>, <<700, 9, -160, 9>>,
      <<700, 13, -1220, 13>>, <<700, 17, -1550, 17>>, <<700, 17, -1380, 17>>,
      <<700, 19, -1650, 19>>, <<700, 19, -1460, 19>>, <<740, 11, -520, 11>>,
      <<740, 11, -300, 11>>, <<740, 11, -80, 11>>, <<740, 13, -350, 13>>,
      <<800, 13, -1060, 13>>, <<850, 11, -520, 11>>, <<850, 11, -300, 11>>,
      <<900, 11, -680, 11>>, <<900, 11, -460, 11>>, <<900, 19, -1850, 19>>,
      <<900, 19, -1660, 19>>, <<900, 29, -2350, 29>>, <<950, 11, -620, 11>>,
      <<950, 11, -400, 11>>, <<950, 17, -1460, 17>>, <<1000, 29, -2450, 29>>,
      <<1060, 11, -620, 11>>, <<1060, 11, -400, 11>>, <<1060, 13, -800, 13>>,
      <<1060, 13, -540, 13>>, <<1100, 23, -2250, 23>>, <<1100, 23, -2020, 23>>,
      <<1150, 17, -980, 17>>, <<1150, 17, -300, 17>>, <<1220, 13, -700, 13>>,
      <<1400, 23, -1860, 23>>, <<1550, 17, -700, 17>>, <<1600, 23, -1140, 23>>,
      <<1900, 23, -980, 23>>, <<1900, 23, -750, 23>>, <<2100, 29, -650, 29>>,
      <<2600, 27, -1250, 27>>, <<2700, 29, -1250, 29>>
    }
\* the pairs of floats (s, u) for which (2 * s + 1 * u) / (2 + 1) is computed
\* just below its exact value, an integer
STABILITY_ROUNDED_DOWN ==
    {
      <<-1060, 11, 800, 11>>, <<-850, 11, 380, 11>>, <<-740, 11, 820, 11>>,
      <<-700, 9, 860, 9>>, <<-600, 7, 675, 7>>, <<-575, 6, 260, 3>>, <<-575, 7, 625, 7>>,
      <<-540, 7, 450, 7>>, <<-540, 7, 660, 7>>, <<-460, 7, 500, 7>>, <<-425, 6, 200, 3>>,
      <<-425, 6, 290, 3>>, <<-340, 7, 260, 7>>, <<-325, 6, 190, 3>>, <<-300, 7, 180, 7>>,
      <<-280, 3, 200, 3>>, <<-280, 3, 290, 3>>, <<-260, 11, 850, 11>>, <<-250, 3, 230, 3>>,
      <<-250, 3, 275, 3>>, <<-220, 3, 80, 3>>, <<-220, 3, 260, 3>>, <<-200, 11, 1060, 11>>,
      <<-175, 6, 220, 3>>, <<-170, 3, 160, 3>>, <<-140, 3, 100, 3>>, <<-140, 3, 190, 3>>,
      <<-125, 3, 160, 3>>, <<-125, 6, 80, 3>>, <<-125, 7, 460, 7>>, <<-110, 3, 40, 3>>,
      <<-110, 3, 130, 3>>, <<-110, 3, 175, 3>>, <<-80, 3, 250, 3>>, <<-70, 3, 50, 3>>,
      <<-50, 3, 280, 3>>, <<-40, 3, 125, 3>>, <<-40, 3, 170, 3>>, <<-25, 3, 140, 3>>,
      <<-25, 6, 70, 3>>, <<-20, 3, 220, 3>>, <<-20, 7, 460, 7>>, <<-10, 3, 110, 3>>,
      <<10, 3, -110, 3>>, <<20, 3, -220, 3>>, <<20, 7, -460, 7>>, <<25, 3, -140, 3>>,
      <<25, 6, -70, 3>>, <<40, 3, -170, 3>>, <<40, 3, -125, 3>>, <<50, 3, -280, 3>>,
      <<70, 3, -50, 3>>, <<80, 3, -250, 3>>, <<110, 3, -175, 3>>, <<110, 3, -130, 3>>,
      <<110, 3, -40, 3>>, <<125, 3, -160, 3>>, <<125, 6, -80, 3>>, <<125, 7, -460, 7>>,
      <<140, 3, -190, 3>>, <<140, 3, -100, 3>>, <<170, 3, -160, 3>>, <<175, 6, -220, 3>>,
      <<200, 11, -1060, 11>>, <<220, 3, -260, 3>>, <<220, 3, -80, 3>>, <<250, 3, -275, 3>>,
      <<250, 3, -230, 3>>, <<260, 11, -850, 11>>, <<280, 3, -290, 3>>, <<280, 3, -200, 3>>,
      <<300, 7, -180, 7>>, <<325, 6, -190, 3>>, <<340, 7, -260, 7>>, <<425, 6, -290, 3>>,
      <<425, 6, -200, 3>>, <<460, 7, -500, 7>>, <<540, 7, -660, 7>>, <<540, 7, -450, 7>>,
      <<575, 6, -260, 3>>, <<575, 7, -625, 7>>, <<600, 7, -675, 7>>, <<700, 9, -860, 9>>,
      <<740, 11, -820, 11>>, <<850, 11, -380, 11>>, <<1060, 11, -800, 11>>
    }

\* int16(x) of a float x just below the integer exact
RoundedDown(exact) == IF exact > 0 THEN exact - 1 ELSE exact + 1

\* mobility_heuristic: int16((actual + potential) / 2)
mobility_heuristic(player_moves_a, opponent_moves_a, player_moves_p, opponent_moves_p) ==
    LET a == Percent(player_moves_a, opponent_moves_a)
        q == Percent(player_moves_p, opponent_moves_p)
        exact == TruncDiv(a[1] * q[2] + q[1] * a[2], 2 * a[2] * q[2])
    IN  IF <<a[1], a[2], q[1], q[2]>> \in MOBILITY_ROUNDED_DOWN
        THEN RoundedDown(exact) ELSE exact

mobility_heuristic_standalone(b, player_id) ==
    LET opponent_id == 3 - player_id
        bb == array_to_bitboard(b)
    IN  mobility_heuristic(Len(get_possible_moves(player_id, bb)),
                           Len(get_possible_moves(opponent_id, bb)),
                           count_ones(find_empty_neighbors_of_player(opponent_id, bb)),
                           count_ones(find_empty_neighbors_of_player(player_id, bb)))

\* 0x8100000000000081
corners_mask == {0, 7, 56, 63}

\* the moves of a list that are corners
potential_corners(possible_moves) ==
    Cardinality({i \in 1..Len(possible_moves) :
                    (8 * possible_moves[i][1] + possible_moves[i][2]) \in corners_mask})

corner_heuristic(bb, player_id, player_possible_moves, opponent_possible_moves) ==
    LET pb == get_player_board(bb, player_id)
        player_corners == count_ones(pb[1] \cap corners_mask)
        opponent_corners == count_ones(pb[2] \cap corners_mask)
        player_corner_value == 2 * player_corners + 1 * potential_corners(player_possible_moves)
        opponent_corner_value ==
            2 * opponent_corners + 1 * potential_corners(opponent_possible_moves)
    IN  IF player_corner_value + opponent_corner_value # 0
        THEN TruncDiv(100 * (player_corner_value - opponent_corner_value),
                      player_corner_value + opponent_corner_value)
        ELSE 0

corner_heuristic_standalone(b, player_id) ==
    LET bb == array_to_bitboard(b)
    IN  corner_heuristic(bb, player_id, get_possible_moves(player_id, bb),
                         get_possible_moves(3 - player_id, bb))

\* find_unstable_disks: the discs of player that some move of the opponent flips
find_unstable_disks(player, bb, opponent_moves) ==
    LET player_board == get_player_board(bb, player)[1]
        opponent == 3 - player
    IN  count_ones(UNION {player_board
                            \cap get_player_board(flip_tiles(opponent_moves[i], opponent, bb),
                                                  player)[2] :
                          i \in 1..Len(opponent_moves)})

\* find_stable_disks: the discs of player that no disc put on an adjacent cell
\* flips when the opponent holds all the other adjacent cells
find_stable_disks(player, bb, adjacent_cells) ==
    LET pb == get_player_board(bb, player)
        player_board == pb[1]
        opponent_board == pb[2]
        opponent == 3 - player
        fliped_disks ==
            UNION {LET tmp_opponent == opponent_board \cup Xor(adjacent_cells, {i})
                       tmp_board == IF player = 1 THEN <<player_board, tmp_opponent>>
                                    ELSE <<tmp_opponent, player_board>>
                   IN  player_board
                          \cap get_player_board(flip_tiles(<<i \div 8, i % 8>>, opponent,
                                                           tmp_board), player)[2] :
                   i \in adjacent_cells}
    IN  count_ones(player_board \ fliped_disks)

\* stability_heuristic: int16((2 * stable + 1 * unstable) / (2 + 1))
stability_heuristic(bb, player_id, player_possible_moves, opponent_possible_moves, player_adjacent_cells, opponent_adjacent_cells) ==
    LET opponent_id == 3 - player_id
        st == Percent(find_stable_disks(player_id, bb, player_adjacent_cells),
                      find_stable_disks(opponent_id, bb, opponent_adjacent_cells))
        un == Percent(find_unstable_disks(opponent_id, bb, player_possible_moves),
                      find_unstable_disks(player_id, bb, opponent_possible_moves))
        exact == TruncDiv(2 * st[1] * un[2] + 1 * un[1] * st[2], (2 + 1) * st[2] * un[2])
    IN  IF <<st[1], st[2], un[1], un[2]>> \in STABILITY_ROUNDED_DOWN
        THEN RoundedDown(exact) ELSE exact

stability_heuristic_standalone(b, player_id) ==
    LET bb == array_to_bitboard(b)
    IN  stability_heuristic(bb, player_id, get_possible_moves(player_id, bb),
                            get_possible_moves(3 - player_id, bb),
                            find_empty_neighbors_of_player(player_id, bb),
                            find_empty_neighbors_of_player(3 - player_id, bb))

\* the value x as an int16
Int16(x) == ((x + 32768) % 65536) - 32768

\* hybrid_heuristic: the weighted mean, with disk_parity_weight = (p + o) / 2
\* (numerator and denominator are doubled here)
hybrid_final_score(player_disks, opponent_disks, mobility, corner, stability) ==
    TruncDiv((player_disks + opponent_disks)
                * disk_parity_heuristic(player_disks, opponent_disks)
             + 2 * 20 * mobility + 2 * 50 * corner + 2 * 40 * stability,
             (player_disks + opponent_disks) + 2 * (20 + 50 + 40))

hybrid_heuristic(b, player_id) ==
    LET opponent_id == 3 - player_id
        bb == array_to_bitboard(b)
        pb == get_player_board(bb, player_id)
        player_disks == count_ones(pb[1])
        opponent_disks == count_ones(pb[2])
        player_possible_moves == get_possible_moves(player_id, bb)
        opponent_possible_moves == get_possible_moves(opponent_id, bb)
        player_adjacent_cells == find_empty_neighbors_of_player(player_id, bb)
        opponent_adjacent_cells == find_empty_neighbors_of_player(opponent_id, bb)
    IN  IF Len(player_possible_moves) + Len(opponent_possible_moves) = 0
        THEN Int16(400 * (player_disks - opponent_disks))
        ELSE Int16(hybrid_final_score(player_disks, opponent_disks,
                      mobility_heuristic(Len(player_possible_moves),
                                         Len(opponent_possible_moves),
                                         count_ones(opponent_adjacent_cells),
                                         count_ones(player_adjacent_cells)),
                      corner_heuristic(bb, player_id, player_possible_moves,
                                       opponent_possible_moves),
                      stability_heuristic(bb, player_id, player_possible_moves,
                                          opponent_possible_moves, player_adjacent_cells,
                                          opponent_adjacent_cells)))

\* the evaluators get_heuristic knows by name
EvaluatorNames == {"static_weights", "stability", "corner", "mobility", "disk_parity", "hybrid"}

\* the evaluator raises instead of returning a value
evaluator_raises(name, b, player_id) ==
    /\ name = "disk_parity"
    /\ disk_parity_heuristic_raises(count_nonzero(b, player_id),
                                    count_nonzero(b, 3 - player_id))

\* get_heuristic(name)(board, player_id), where it returns
evaluator(name, b, player_id) ==
    IF name = "static_weights" THEN static_weights_heuristic(b, player_id)
    ELSE IF name = "stability" THEN stability_heuristic_standalone(b, player_id)
    ELSE IF name = "corner" THEN corner_heuristic_standalone(b, player_id)
    ELSE IF name = "mobility" THEN mobility_heuristic_standalone(b, player_id)
    ELSE IF name = "disk_parity" THEN disk_parity_heuristic_standalone(b, player_id)
    ELSE hybrid_heuristic(b, player_id)

----------------------------------------------------------------------------
(* zobrist_hashing.py *)

\* h ^= zobrist_table[x, y, piece] over the occupied squares.  The table holds
\* 192 random 64-bit keys; the hash is modelled as the set of the keys XORed
\* together, so two boards have the same hash iff they are the same board.
compute_single_zobrist_hash(b) ==
    {<<i \div 8, i % 8, b[i \div 8][i % 8]>> : i \in {j \in Squares : b[j \div 8][j % 8] # 0}}

\* the seven symmetries are commented out in the source
compute_zobrist_hash(b) == compute_single_zobrist_hash(b)

----------------------------------------------------------------------------
(* minmax.py : MinimaxPlayer *)

EXACT == 2
UPPERBOUND == 1
LOWERBOUND == 0

TTEntry(value, depth, flag, best_move) ==
    [value |-> value, depth |-> depth, flag |-> flag, best_move |-> best_move]

Max(x, y) == IF x >= y THEN x ELSE y
Min(x, y) == IF x <= y THEN x ELSE y

\* self.heuristic(board, self.id), for the evaluators the model covers
heuristic(self, b, id) ==
    IF self.heuristic = "static_weights"
    THEN static_weights_heuristic(b, id)
    ELSE disk_parity_heuristic_standalone(b, id)

\* np.random.shuffle(player_moves) with the generator fixed: the permutation
\* drawn is the identity (shuffle 0) or the reversal (shuffle 1)
np_random_shuffle(self, moves) ==
    IF self.shuffle = 0 THEN moves
    ELSE [i \in 1..Len(moves) |-> moves[Len(moves) + 1 - i]]

\* move_scores of sort_moves
move_scores(b, player_id, moves, previous_best_move) ==
    [i \in 1..Len(moves) |->
        IF moves[i] = previous_best_move THEN 9999
        ELSE static_weights_heuristic(array_flip_tiles(moves[i], player_id, b), player_id)]

\* moves[np.argsort(-move_scores)]: by descending score, moves of equal score
\* in the order given (the sort of an array of fewer than 16 items is an
\* insertion sort)
argsort_descending(moves, scores) ==
    LET n == Len(moves)
        rank(i) == 1 + Cardinality({j \in 1..n :
                           scores[j] > scores[i] \/ (scores[j] = scores[i] /\ j < i)})
    IN  [k \in 1..n |-> moves[CHOOSE i \in 1..n : rank(i) = k]]

sort_moves(b, player_id, moves, previous_best_move) ==
    argsort_descending(moves, move_scores(b, player_id, moves, previous_best_move))

RECURSIVE negamax(_, _, _, _, _, _, _)
RECURSIVE negamax_loop(_, _, _, _, _, _, _, _, _, _, _)

\* the body of the for loop for sorted_moves[i], sub being what the recursive
\* call on temp_board returned
negamax_iteration(self, b, depth, alpha, beta, color, sorted_moves, i, max_eval, best_move, sub) ==
    LET eval_state == -sub.value
        new_max == IF eval_state > max_eval THEN eval_state ELSE max_eval
        new_best == IF eval_state > max_eval THEN sorted_moves[i] ELSE best_move
        new_alpha == Max(alpha, eval_state)
        rest == negamax_loop(self, b, depth, new_alpha, beta, color, sorted_moves,
                             i + 1, new_max, new_best, sub.tt)
    IN  IF new_alpha >= beta
        THEN [max_eval |-> new_max, best_move |-> new_best, tt |-> sub.tt,
              foreign |-> sub.foreign]
        ELSE [rest EXCEPT !.foreign = @ \/ sub.foreign]

\* the for loop of negamax from sorted_moves[i] on; tt is the table so far
negamax_loop(self, b, depth, alpha, beta, color, sorted_moves, i, max_eval, best_move, tt) ==
    IF i > Len(sorted_moves)
    THEN [max_eval |-> max_eval, best_move |-> best_move, tt |-> tt, foreign |-> FALSE]
    ELSE negamax_iteration(self, b, depth, alpha, beta, color, sorted_moves, i,
                           max_eval, best_move,
                           negamax(self,
                                   array_flip_tiles(sorted_moves[i],
                                                    IF color = 1 THEN self.id ELSE 3 - self.id,
                                                    b),
                                   depth - 1, -beta, -alpha, -color, tt))

\* the loop entered with max_eval = 0
negamax_moves_from_zero(self, b, depth, alpha, beta, color, sorted_moves, tt) ==
    negamax_loop(self, b, depth, alpha, beta, color, sorted_moves, 1, 0, <<-1, -1>>, tt)

\* max_eval = -32767; best_move = (-1, -1); for r, c in sorted_moves: ...
negamax_moves(self, b, depth, alpha, beta, color, sorted_moves, tt) ==
    negamax_loop(self, b, depth, alpha, beta, color, sorted_moves, 1, -32767, <<-1, -1>>, tt)

\* the entry e with the side that was to move when it was stored: a history
\* field, which nothing of the search reads
StoredFor(e, player_id) ==
    [value |-> e.value, depth |-> e.depth, flag |-> e.flag, best_move |-> e.best_move,
     stored_for |-> player_id]

\* the flag and the entry stored after the loop, l being what the loop left
negamax_store(zobrist_hash, depth, alpha_orig, beta, l, player_id) ==
    LET flag == IF l.max_eval <= alpha_orig THEN UPPERBOUND
                ELSE IF l.max_eval >= beta THEN LOWERBOUND
                ELSE EXACT
    IN  [value |-> l.max_eval, best_move |-> l.best_move,
         tt |-> (zobrist_hash :> StoredFor(TTEntry(l.max_eval, depth, flag, l.best_move),
                                           player_id)) @@ l.tt,
         foreign |-> l.foreign]

\* return -self.negamax(board, depth, -beta, -alpha, -color)[0], (-1, -1)
negamax_pass(sub) ==
    [value |-> -sub.value, best_move |-> <<-1, -1>>, tt |-> sub.tt,
     foreign |-> sub.foreign]

\* negamax after the table probe: the base case, the pass and the move loop
negamax_node(self, b, depth, alpha_orig, alpha, beta, color, tt, zobrist_hash, previous_best_move, player_id, player_moves, opponent_moves) ==
    IF depth = 0 \/ (Len(player_moves) = 0 /\ Len(opponent_moves) = 0)
    THEN [value |-> color * heuristic(self, b, self.id), best_move |-> <<-1, -1>>,
          tt |-> tt, foreign |-> FALSE]
    ELSE IF Len(player_moves) = 0
    THEN negamax_pass(negamax(self, b, depth, -beta, -alpha, -color, tt))
    ELSE negamax_store(zobrist_hash, depth, alpha_orig, beta,
                       negamax_moves(self, b, depth, alpha, beta, color,
                                     sort_moves(b, player_id,
                                                np_random_shuffle(self, player_moves),
                                                previous_best_move),
                                     tt),
                       player_id)

\* the probe of the transposition table under zobrist_hash.  foreign records
\* that the call, or a call below it, used an entry stored with the other side
\* to move: returned it, narrowed the window with it, or took its best_move
\* as the move to try first
negamax_probe(self, b, depth, alpha_orig, beta_orig, color, tt, zobrist_hash) ==
    LET player_id == IF color = 1 THEN self.id ELSE 3 - self.id
        opponent_id == 3 - player_id
        found == zobrist_hash \in DOMAIN tt
        tt_entry == tt[zobrist_hash]
        deep == found /\ tt_entry.depth >= depth
        alpha == IF deep /\ tt_entry.flag = LOWERBOUND
                 THEN Max(alpha_orig, tt_entry.value) ELSE alpha_orig
        beta == IF deep /\ tt_entry.flag = UPPERBOUND
                THEN Min(beta_orig, tt_entry.value) ELSE beta_orig
        previous_best_move == IF found THEN tt_entry.best_move ELSE <<-1, -1>>
        below == negamax_node(self, b, depth, alpha_orig, alpha, beta, color, tt,
                              zobrist_hash, previous_best_move, player_id,
                              array_get_possible_moves(player_id, b),
                              array_get_possible_moves(opponent_id, b))
        used == \/ deep /\ tt_entry.flag \in {LOWERBOUND, UPPERBOUND}
                \/ found /\ depth > 0 /\ array_get_possible_moves(player_id, b) # <<>>
    IN  IF deep /\ (tt_entry.flag = EXACT \/ alpha >= beta)
        THEN [value |-> tt_entry.value, best_move |-> tt_entry.best_move, tt |-> tt,
              foreign |-> tt_entry.stored_for # player_id]
        ELSE [below EXCEPT !.foreign = @ \/ (used /\ tt_entry.stored_for # player_id)]

\* self.negamax(board, depth, alpha, beta, color) on the transposition table tt:
\* the value and move returned and the table the call leaves
negamax(self, b, depth, alpha_orig, beta_orig, color, tt) ==
    negamax_probe(self, b, depth, alpha_orig, beta_orig, color, tt,
                  compute_zobrist_hash(b))

RECURSIVE mtdf_loop(_, _, _, _, _, _, _, _, _)

\* the body of the while loop after the probe with window (beta - 1, beta)
\* returned r
mtdf_iteration(self, b, depth, beta, lowerBound, upperBound, n, r) ==
    IF r.value < beta
    THEN mtdf_loop(self, b, depth, r.value, r.best_move,
                   lowerBound, r.value, r.tt, n + 1)
    ELSE mtdf_loop(self, b, depth, r.value, r.best_move,
                   r.value, upperBound, r.tt, n + 1)

\* the same body as one step of a thread th that runs mtdf: the locals of mtdf
\* after the probe returned r
mtdf_thread_iteration(th, beta, r) ==
    IF r.value < beta
    THEN [th EXCEPT !.g = r.value, !.best_move = r.best_move,
                    !.upperBound = r.value, !.n = th.n + 1]
    ELSE [th EXCEPT !.g = r.value, !.best_move = r.best_move,
                    !.lowerBound = r.value, !.n = th.n + 1]

\* the while loop of mtdf after n probes, given up after MaxProbes probes
mtdf_loop(self, b, depth, g, best_move, lowerBound, upperBound, tt, n) ==
    IF ~(lowerBound < upperBound) \/ n >= MaxProbes
    THEN [value |-> g, best_move |-> best_move, tt |-> tt,
          lowerBound |-> lowerBound, upperBound |-> upperBound, probes |-> n]
    ELSE mtdf_iteration(self, b, depth, Max(g, lowerBound + 1), lowerBound, upperBound, n,
                        negamax(self, b, depth, Max(g, lowerBound + 1) - 1,
                                Max(g, lowerBound + 1), 1, tt))

mtdf(self, b, f, depth, tt) ==
    mtdf_loop(self, b, depth, f, <<-1, -1>>, INT16_NEGINF, INT16_POSINF, tt, 0)

\* get_move without a time limit
get_move(self, b, tt) ==
    negamax(self, b, self.depth, INT16_NEGINF, INT16_POSINF, 1, tt)

----------------------------------------------------------------------------
(* SpecBoards: get_possible_moves applied to sampled boards with disjoint masks *)

\* the squares the sampled boards are populated on: the 3x3 block at the east
\* edge of rows 0..2 and the first two squares of row 1, bit-adjacent to (0,7)
SampleRegion ==
    {8 * r + c : r \in 0..2, c \in 5..7} \cup {8, 9}

SampleBoards ==
    {bb \in (SUBSET SampleRegion) \X (SUBSET SampleRegion) :
        /\ bb[1] \cap bb[2] = {}
        /\ Cardinality(bb[1]) + Cardinality(bb[2]) <= MaxDiscs}

bitboard_to_2d_array(bb) ==
    [r \in Rows |-> [c \in Cols |->
        IF (8 * r + c) \in bb[1] THEN 1
        ELSE IF (8 * r + c) \in bb[2] THEN 2
        ELSE 0]]

InitBoards ==
    /\ bitboard \in SampleBoards \cup {array_to_bitboard(OpeningBoard)}
    /\ board = bitboard_to_2d_array(bitboard)
    /\ current_player \in {PLAYER1, PLAYER2}
    /\ node = get_player_board(bitboard, current_player)
    /\ game_over = FALSE
    /\ winner = -1
    /\ moves_applied = 0
    /\ passes_in_row = 0
    /\ agent = NoAgent
    /\ last = NoCall
    /\ seen = {}
    /\ ncalls = 0
    /\ probe = NoProbe
    /\ NoExt

ProbePossibleMoves ==
    /\ probe = NoProbe
    /\ probe' = [op |-> "get_possible_moves",
                 out |-> get_possible_moves(current_player, bitboard)]
    /\ UNCHANGED <<board, bitboard, current_player, game_over, winner, moves_applied,
                   passes_in_row, node, agent, last, seen, ncalls>>
    /\ UNCHANGED extVars

NextBoards == ProbePossibleMoves

SpecBoards == InitBoards /\ [][NextBoards]_vars

----------------------------------------------------------------------------
(* SpecSearch: a MinimaxPlayer searching and playing the end of the recorded game *)

EmptyTable == <<>>

Heuristics == {"static_weights", "disk_parity"}

\* the first guesses mtdf is called with
FirstGuesses == {0, 20}

InitSearch ==
    /\ InitGame(60 - SearchEmpties)
    /\ agent \in [id : {PLAYER1, PLAYER2}, depth : 1..MaxDepth, heuristic : Heuristics,
                  shuffle : {0, 1}, transposition_table : {EmptyTable}]
    /\ last = NoCall
    /\ seen = {}
    /\ ncalls = 0
    /\ probe = NoProbe
    /\ NoExt

\* the side to move is the agent's
AgentToMove == ~game_over /\ current_player = agent.id

\* a direct call self.negamax(board, self.depth, -32767, 32767, 1)
CallNegamax ==
    /\ AgentToMove
    /\ ncalls < MaxCalls
    /\ \E r \in {negamax(agent, board, agent.depth, INT16_NEGINF, INT16_POSINF, 1,
                        agent.transposition_table)} :
           /\ agent' = [agent EXCEPT !.transposition_table = r.tt]
           /\ last' = [op |-> "negamax", board |-> board, value |-> r.value,
                       best_move |-> r.best_move,
                       board_after |-> board,
                       table_before |-> agent.transposition_table,
                       foreign |-> r.foreign]
           /\ seen' = seen \cup {[board |-> board, value |-> r.value]}
    /\ ncalls' = ncalls + 1
    /\ UNCHANGED <<board, bitboard, current_player, game_over, winner, moves_applied,
                   passes_in_row, node, probe>>
    /\ UNCHANGED extVars

\* a direct call self.mtdf(board, f, self.depth)
CallMtdf ==
    /\ AgentToMove
    /\ ncalls < MaxCalls
    /\ \E f \in FirstGuesses :
         \E r \in {mtdf(agent, board, f, agent.depth, agent.transposition_table)} :
             /\ agent' = [agent EXCEPT !.transposition_table = r.tt]
             /\ last' = [op |-> "mtdf", board |-> board, value |-> r.value,
                         best_move |-> r.best_move,
                         board_after |-> board,
                         table_before |-> agent.transposition_table,
                         lowerBound |-> r.lowerBound, upperBound |-> r.upperBound,
                         probes |-> r.probes]
    /\ ncalls' = ncalls + 1
    /\ UNCHANGED <<board, bitboard, current_player, game_over, winner, moves_applied,
                   passes_in_row, node, seen, probe>>
    /\ UNCHANGED extVars

\* one iteration of the game loop in which the agent is asked for its move
AgentTurn ==
    /\ AgentToMove
    /\ array_get_possible_moves(current_player, board) # <<>>
    /\ \E r \in {get_move(agent, board, agent.transposition_table)} :
           /\ agent' = [agent EXCEPT !.transposition_table = r.tt]
           /\ last' = [op |-> "get_move", board |-> board, value |-> r.value,
                       best_move |-> r.best_move,
                       board_after |-> board,
                       table_before |-> agent.transposition_table]
           /\ seen' = seen \cup {[board |-> board, value |-> r.value]}
           /\ IF NumpyContains(array_get_possible_moves(current_player, board), r.best_move)
              THEN /\ board' = array_flip_tiles(r.best_move, current_player, board)
                   /\ bitboard' = flip_tiles(r.best_move, current_player, bitboard)
                   /\ node' = rollout_move(node, 8 * r.best_move[1] + r.best_move[2])
                   /\ current_player' = 3 - current_player
                   /\ moves_applied' = moves_applied + 1
                   /\ passes_in_row' = 0
              ELSE UNCHANGED <<board, bitboard, node, current_player, moves_applied,
                               passes_in_row>>
    /\ UNCHANGED <<game_over, winner, ncalls, probe>>
    /\ UNCHANGED extVars

\* one iteration of the game loop in which the other player, a RandomAgent, moves
OpponentTurn ==
    /\ ~game_over
    /\ current_player # agent.id
    /\ array_get_possible_moves(current_player, board) # <<>>
    /\ \E move \in RandomAgent_get_move(current_player, board) :
          /\ board' = array_flip_tiles(move, current_player, board)
          /\ bitboard' = flip_tiles(move, current_player, bitboard)
          /\ node' = rollout_move(node, 8 * move[1] + move[2])
          /\ current_player' = 3 - current_player
          /\ moves_applied' = moves_applied + 1
          /\ passes_in_row' = 0
    /\ UNCHANGED <<game_over, winner, agent, last, seen, ncalls, probe>>
    /\ UNCHANGED extVars

NextSearch ==
    \/ CallNegamax
    \/ CallMtdf
    \/ AgentTurn
    \/ OpponentTurn
    \/ SimPass
    \/ SimGameOver

SpecSearch == InitSearch /\ [][NextSearch]_vars

\* a game in which the only searches are those of the agent's moves
InitPlay ==
    /\ InitGame(60 - PlayEmpties)
    /\ agent \in [id : {PLAYER1, PLAYER2}, depth : 1..MaxDepth, heuristic : Heuristics,
                  shuffle : {0, 1}, transposition_table : {EmptyTable}]
    /\ last = NoCall
    /\ seen = {}
    /\ ncalls = 0
    /\ probe = NoProbe
    /\ NoExt

NextPlay ==
    \/ AgentTurn
    \/ OpponentTurn
    \/ SimPass
    \/ SimGameOver

SpecPlay == InitPlay /\ [][NextPlay]_vars

----------------------------------------------------------------------------
(* SpecTimed: get_move of a MinimaxPlayer with a time limit.  func_timeout  *)
(* runs mtdf in a thread and joins it with a timeout; a step of a thread is *)
(* one iteration of the while loop of mtdf (a whole probe of negamax on the *)
(* agent's transposition table) or its return.                              *)

\* the agent plays the recorded game from its last TimedEmpties plies on
TimedEmpties == 3
\* ... deepening to at most TimedDepth
TimedDepth == 2
\* ... in at most TimedCalls calls of get_move
TimedCalls == 1

\* best_move = None
None == <<>>

InitTimed ==
    /\ InitGame(60 - TimedEmpties)
    /\ agent \in [id : {PLAYER1, PLAYER2}, depth : 1..TimedDepth,
                  heuristic : {"static_weights"},
                  shuffle : {0}, transposition_table : {EmptyTable}]
    /\ last = NoCall
    /\ seen = {}
    /\ ncalls = 0
    /\ probe = NoProbe
    /\ timed = [pc |-> "idle"]
    /\ threads = <<>>
    /\ players = <<>>
    /\ heap = <<>>
    /\ tree = NoTree

\* StoppableThread(target=funcwrap, args=(args, kwargs)); thread.start(), with
\* (partial records g, best_move and the number of probes made when the thread
\* is stopped)
\* func = self.mtdf and args = (board, f, depth): the locals of mtdf at its start
thread_start(b, f, depth, call) ==
    [board |-> b, depth |-> depth, call |-> call, g |-> f, best_move |-> <<-1, -1>>,
     lowerBound |-> INT16_NEGINF, upperBound |-> INT16_POSINF, n |-> 0,
     alive |-> TRUE, ret |-> <<>>, stopped |-> FALSE, partial |-> <<>>,
     after_stop |-> 0]

\* mtdf returns (g, best_move), funcwrap appends it to ret and the thread ends:
\* the locals of mtdf are gone
thread_return(th) ==
    [th EXCEPT !.alive = FALSE, !.ret = <<th.g, th.best_move>>,
               !.g = 0, !.best_move = <<-1, -1>>,
               !.lowerBound = INT16_NEGINF, !.upperBound = INT16_POSINF, !.n = 0]

\* the locals of iterative_deepening_timed before its for loop
timed_start ==
    [pc |-> "loop", depth |-> 1, best_score |-> 0, best_move |-> None,
     reached_depth |-> -1, timeout |-> FALSE]

\* best_score, best_move = func_timeout(...); reached_depth = depth
timed_on_return(t, th) ==
    [t EXCEPT !.pc = "loop", !.best_score = th.ret[1], !.best_move = th.ret[2],
              !.reached_depth = t.depth, !.depth = t.depth + 1]

\* the except branch with the partial result of the thread taken over
timed_on_timeout_partial(t, th) ==
    [t EXCEPT !.pc = "loop", !.timeout = TRUE, !.depth = t.depth + 1,
              !.best_score = th.g, !.best_move = th.best_move]

\* except FunctionTimedOut: timeout = True
timed_on_timeout(t, th) ==
    [t EXCEPT !.pc = "loop", !.timeout = TRUE, !.depth = t.depth + 1]

\* get_move with self.time_limit set: iterative_deepening_timed is entered
TimedStart ==
    /\ timed.pc = "idle"
    /\ AgentToMove
    /\ ncalls < TimedCalls
    /\ array_get_possible_moves(current_player, board) # <<>>
    /\ timed' = timed_start
    /\ ncalls' = ncalls + 1
    /\ UNCHANGED <<board, bitboard, current_player, game_over, winner, moves_applied,
                   passes_in_row, node, agent, last, seen, probe>>
    /\ UNCHANGED <<threads, players, heap, tree>>

\* an iteration of the for loop that reaches func_timeout: the thread is started
TimedSpawn ==
    /\ timed.pc = "loop"
    /\ timed.depth <= agent.depth
    /\ ~timed.timeout
    /\ threads' = Append(threads, thread_start(board, timed.best_score, timed.depth, ncalls))
    /\ timed' = [timed EXCEPT !.pc = "join"]
    /\ UNCHANGED <<coreVars, players, heap, tree>>

\* a thread started by func_timeout runs on: the while loop of mtdf is left and
\* funcwrap appends what mtdf returns to ret, or one more probe is made.  The
\* stop event of a StoppableThread is read nowhere in mtdf or negamax.
ThreadStep ==
    \E i \in 1..Len(threads) :
        /\ threads[i].alive
        /\ IF ~(threads[i].lowerBound < threads[i].upperBound) \/ threads[i].n >= MaxProbes
           THEN /\ threads' = [threads EXCEPT ![i] = thread_return(threads[i])]
                /\ UNCHANGED agent
           ELSE \E beta \in {Max(threads[i].g, threads[i].lowerBound + 1)} :
                \E r \in {negamax(agent, threads[i].board, threads[i].depth,
                                  beta - 1, beta, 1, agent.transposition_table)} :
                    /\ agent' = [agent EXCEPT !.transposition_table = r.tt]
                    /\ threads' = [threads EXCEPT ![i] =
                          [mtdf_thread_iteration(threads[i], beta, r) EXCEPT
                              !.after_stop = IF threads[i].stopped
                                             THEN threads[i].after_stop + 1
                                             ELSE threads[i].after_stop]]
        /\ UNCHANGED <<board, bitboard, current_player, game_over, winner, moves_applied,
                       passes_in_row, node, last, seen, ncalls, probe>>
        /\ UNCHANGED <<timed, players, heap, tree>>

\* thread.join(timeout) returned and the thread is not alive: ret[0] is returned
JoinReturn ==
    /\ timed.pc = "join"
    /\ ~threads[Len(threads)].alive
    /\ timed' = timed_on_return(timed, threads[Len(threads)])
    /\ UNCHANGED <<coreVars, threads, players, heap, tree>>

\* thread.join(timeout) returned and the thread is alive: thread.stop() and
\* raise FunctionTimedOut()
JoinTimeout ==
    /\ timed.pc = "join"
    /\ threads[Len(threads)].alive
    /\ threads' = [threads EXCEPT ![Len(threads)].stopped = TRUE,
                                  ![Len(threads)].partial =
                                      <<threads[Len(threads)].g,
                                        threads[Len(threads)].best_move,
                                        threads[Len(threads)].n>>]
    /\ timed' = timed_on_timeout(timed, threads[Len(threads)])
    /\ UNCHANGED <<coreVars, players, heap, tree>>

\* the for loop is over (range exhausted, or if timeout: break); get_move
\* returns best_move and the game loop applies it if it is a valid move
TimedReturn ==
    /\ timed.pc = "loop"
    /\ timed.depth > agent.depth \/ timed.timeout
    /\ timed' = [pc |-> "idle"]
    /\ last' = [op |-> "iterative_deepening_timed", board |-> board,
                value |-> timed.best_score, best_move |-> timed.best_move,
                reached_depth |-> timed.reached_depth, timeout |-> timed.timeout,
                call |-> ncalls, last_thread |-> Len(threads)]
    /\ IF timed.best_move # None
          /\ NumpyContains(array_get_possible_moves(current_player, board), timed.best_move)
       THEN /\ board' = array_flip_tiles(timed.best_move, current_player, board)
            /\ bitboard' = flip_tiles(timed.best_move, current_player, bitboard)
            /\ node' = rollout_move(node, 8 * timed.best_move[1] + timed.best_move[2])
            /\ current_player' = 3 - current_player
            /\ moves_applied' = moves_applied + 1
            /\ passes_in_row' = 0
       ELSE UNCHANGED <<board, bitboard, node, current_player, moves_applied,
                        passes_in_row>>
    /\ UNCHANGED <<game_over, winner, agent, seen, ncalls, probe>>
    /\ UNCHANGED <<threads, players, heap, tree>>

NextTimed ==
    \/ TimedStart
    \/ TimedSpawn
    \/ ThreadStep
    \/ JoinReturn
    \/ JoinTimeout
    \/ TimedReturn
    \/ (timed.pc = "idle" /\ OpponentTurn)
    \/ (timed.pc = "idle" /\ SimPass)
    \/ (timed.pc = "idle" /\ SimGameOver)

SpecTimed == InitTimed /\ [][NextTimed]_vars

----------------------------------------------------------------------------
(* SpecAgents: agent objects, their copies and their searches.  An agent is *)
(* a record of its fields; ref is the reference it holds to its search      *)
(* state (transposition table, tree or root node), an index of heap, or 0   *)
(* for None.  An optional number is None or <<n>>; id 0 is an agent whose   *)
(* id attribute was never set.                                              *)

\* the agents watch the recorded game from its last AgentsEmpties plies on
AgentsEmpties == 3
\* at most MaxAgents agent objects exist
MaxAgents == 2
\* ... and they run at most AgentCalls searches
AgentCalls == 2
\* an MCTSAgent with an iteration budget is given MaxIterations iterations
MaxIterations == 1

\* MinimaxPlayer(id, depth, time_limit, heuristic, verbose): a new table
MinimaxPlayer_init(id, depth, time_limit, heuristic_name, verbose, fresh) ==
    [class |-> "MinimaxPlayer", id |-> id, depth |-> <<depth>>, time_limit |-> time_limit,
     heuristic |-> heuristic_name, verbose |-> verbose, nb_iterations |-> None,
     c |-> None, ref |-> fresh, origin |-> 0]

\* agents/mcts.py: MCTSAgent(id, nb_iterations, time_limit, c, verbose); root = None
MCTSAgent_init(id, nb_iterations, time_limit, c, verbose) ==
    [class |-> "MCTSAgent", id |-> id, depth |-> None, time_limit |-> time_limit,
     heuristic |-> "none", verbose |-> verbose, nb_iterations |-> nb_iterations,
     c |-> <<c>>, ref |-> 0, origin |-> 0]

\* agents.py: MCTSAgent(time_limit, nb_iterations, nb_rollouts, c_param, verbose)
\* and set_id(id); tree = None
MCTSAgent_tree_init(id, time_limit, nb_iterations, c_param, verbose) ==
    [class |-> "MCTSAgent_tree", id |-> id, depth |-> None, time_limit |-> time_limit,
     heuristic |-> "none", verbose |-> verbose, nb_iterations |-> nb_iterations,
     c |-> <<c_param>>, ref |-> 0, origin |-> 0]

\* agents/random.py: RandomAgent(id)
RandomAgent_init(id) ==
    [class |-> "RandomAgent", id |-> id, depth |-> None, time_limit |-> None,
     heuristic |-> "none", verbose |-> FALSE, nb_iterations |-> None,
     c |-> None, ref |-> 0, origin |-> 0]

\* agents.py: RandomAgent(verbose); the id attribute exists once set_id is called
RandomAgent_verbose_init(id, verbose) ==
    [class |-> "RandomAgent_verbose", id |-> id, depth |-> None, time_limit |-> None,
     heuristic |-> "none", verbose |-> verbose, nb_iterations |-> None,
     c |-> None, ref |-> 0, origin |-> 0]

\* the copy that keeps the table of the original
MinimaxPlayer_copy_shared(self, fresh) ==
    [MinimaxPlayer_init(self.id, self.depth[1], self.time_limit, "hybrid", self.verbose,
                        self.ref)
        EXCEPT !.heuristic = self.heuristic]

\* MinimaxPlayer.copy: MinimaxPlayer(id, depth, time_limit, verbose) and then
\* player_copy.heuristic = self.heuristic
MinimaxPlayer_copy(self, fresh) ==
    [MinimaxPlayer_init(self.id, self.depth[1], self.time_limit, "hybrid", self.verbose,
                        fresh)
        EXCEPT !.heuristic = self.heuristic]

\* agents/mcts.py: return MCTSAgent(self.id, self.nb_iterations, self.time_limit, self.c)
MCTSAgent_copy(self) ==
    MCTSAgent_init(self.id, self.nb_iterations, self.time_limit, self.c[1], FALSE)

\* agents.py: MCTSAgent(time_limit, nb_iterations, c_param, nb_rollouts, verbose)
\* and player_copy.set_id(self.id)
MCTSAgent_tree_copy(self) ==
    MCTSAgent_tree_init(self.id, self.time_limit, self.nb_iterations, self.c[1],
                        self.verbose)

\* agents.py: return RandomAgent()
RandomAgent_verbose_copy(self) == RandomAgent_verbose_init(0, FALSE)

\* copy() of an agent: whether it raises (agents/random.py calls RandomAgent()
\* although __init__ requires id: TypeError) and the object it returns
Agent_copy(self, fresh) ==
    IF self.class = "RandomAgent"
    THEN [raised |-> TRUE, copy |-> self]
    ELSE [raised |-> FALSE,
          copy |-> IF self.class = "MinimaxPlayer" THEN MinimaxPlayer_copy(self, fresh)
                   ELSE IF self.class = "MCTSAgent" THEN MCTSAgent_copy(self)
                   ELSE IF self.class = "MCTSAgent_tree" THEN MCTSAgent_tree_copy(self)
                   ELSE RandomAgent_verbose_copy(self)]

\* the move of the best child of the root after n >= 0 iterations: None when
\* the root has no child or its only child is the pass, else the move of any
\* child that was expanded
MCTS_best_moves(id, b, n) ==
    IF n = 0 \/ array_get_possible_moves(id, b) = <<>>
    THEN {None}
    ELSE SeqToSet(array_get_possible_moves(id, b))

\* agents/mcts.py MCTSAgent.search: the outcomes
MCTSAgent_search(self, b) ==
    IF self.nb_iterations # None
    THEN {[raised |-> FALSE, move |-> m] :
             m \in MCTS_best_moves(self.id, b, self.nb_iterations[1])}
    ELSE IF self.time_limit = None
    THEN {[raised |-> TRUE, move |-> None]}
    ELSE {[raised |-> FALSE, move |-> m] : m \in MCTS_best_moves(self.id, b, 1)}

\* agents.py MCTSAgent.get_move: timed_search when time_limit is set, else
\* search_tree.search with nb_iterations, which must be an integer
MCTSAgent_tree_get_move(self, b) ==
    IF self.time_limit # None
    THEN {[raised |-> FALSE, move |-> m] : m \in MCTS_best_moves(self.id, b, 1)}
    ELSE IF self.nb_iterations = None
    THEN {[raised |-> TRUE, move |-> None]}
    ELSE {[raised |-> FALSE, move |-> m] :
             m \in MCTS_best_moves(self.id, b, self.nb_iterations[1])}

\* the MinimaxPlayer seen by negamax, its table taken from the heap
MinimaxPlayer_self(p) ==
    [id |-> p.id, depth |-> p.depth[1], heuristic |-> p.heuristic, shuffle |-> 0,
     transposition_table |-> heap[p.ref]]

IterationCounts == {None, <<MaxIterations>>}
TimeLimits == {None, <<1>>}

\* the agents a game can be set up with, all of them verbose (the one setting
\* whose default differs from the value given here)
Originals ==
    {MinimaxPlayer_init(id, 1, None, h, TRUE, 1) :
        id \in {PLAYER1, PLAYER2}, h \in Heuristics}
    \cup {MCTSAgent_init(id, n, t, 14, TRUE) :
        id \in {PLAYER1, PLAYER2}, n \in IterationCounts, t \in TimeLimits}
    \cup {MCTSAgent_tree_init(id, t, n, 14, TRUE) :
        id \in {PLAYER1, PLAYER2}, n \in IterationCounts, t \in TimeLimits}
    \cup {RandomAgent_init(id) : id \in {PLAYER1, PLAYER2}}
    \cup {RandomAgent_verbose_init(id, TRUE) : id \in {PLAYER1, PLAYER2}}

InitAgents ==
    /\ InitGame(60 - AgentsEmpties)
    /\ agent = NoAgent
    /\ last = NoCall
    /\ seen = {}
    /\ ncalls = 0
    /\ probe = NoProbe
    /\ timed = NoTimed
    /\ threads = <<>>
    /\ \E p \in Originals : players = <<p>>
    /\ heap = <<EmptyTable>>
    /\ tree = NoTree

\* player.copy(), as run_simulation makes one for each simulated game
AgentCopy ==
    /\ Len(players) < MaxAgents
    /\ \E i \in 1..Len(players) :
       \E r \in {Agent_copy(players[i], Len(heap) + 1)} :
          /\ last' = [op |-> "copy", of |-> i, raised |-> r.raised,
                      new |-> Len(players) + 1,
                      players_before |-> players, heap_before |-> heap]
          /\ IF r.raised
             THEN UNCHANGED <<players, heap>>
             ELSE /\ players' = Append(players, [r.copy EXCEPT !.origin = i])
                  /\ heap' = IF r.copy.class = "MinimaxPlayer"
                             THEN Append(heap, EmptyTable)
                             ELSE heap
    /\ UNCHANGED <<board, bitboard, current_player, game_over, winner, moves_applied,
                   passes_in_row, node, agent, seen, ncalls, probe>>
    /\ UNCHANGED <<timed, threads, tree>>

\* get_move of the agent object i on the board, for the side to move
AgentSearch ==
    /\ ~game_over
    /\ ncalls < AgentCalls
    /\ \E i \in 1..Len(players) :
          /\ players[i].id = current_player
          /\ \/ /\ players[i].class = "MinimaxPlayer"
                /\ \E r \in {get_move(MinimaxPlayer_self(players[i]), board, heap[players[i].ref])} :
                      /\ heap' = [heap EXCEPT ![players[i].ref] = r.tt]
                      /\ last' = [op |-> "search", who |-> i, raised |-> FALSE,
                                  move |-> r.best_move,
                                  players_before |-> players, heap_before |-> heap]
                /\ UNCHANGED players
             \/ /\ players[i].class = "MCTSAgent"
                /\ \E r \in MCTSAgent_search(players[i], board) :
                      last' = [op |-> "search", who |-> i, raised |-> r.raised,
                               move |-> r.move,
                               players_before |-> players, heap_before |-> heap]
                /\ heap' = Append(heap, [board |-> board, player_id |-> players[i].id])
                /\ players' = [players EXCEPT ![i].ref = Len(heap) + 1]
             \/ /\ players[i].class = "MCTSAgent_tree"
                /\ \E r \in MCTSAgent_tree_get_move(players[i], board) :
                      last' = [op |-> "search", who |-> i, raised |-> r.raised,
                               move |-> r.move,
                               players_before |-> players, heap_before |-> heap]
                /\ IF players[i].ref = 0
                   THEN /\ heap' = Append(heap, get_player_board(bitboard, players[i].id))
                        /\ players' = [players EXCEPT ![i].ref = Len(heap) + 1]
                   ELSE /\ heap' = [heap EXCEPT ![players[i].ref] =
                                        get_player_board(bitboard, players[i].id)]
                        /\ UNCHANGED players
             \/ /\ players[i].class \in {"RandomAgent", "RandomAgent_verbose"}
                /\ \E m \in RandomAgent_get_move(players[i].id, board) :
                      last' = [op |-> "search", who |-> i, raised |-> FALSE, move |-> m,
                               players_before |-> players, heap_before |-> heap]
                /\ UNCHANGED <<players, heap>>
    /\ ncalls' = ncalls + 1
    /\ UNCHANGED <<board, bitboard, current_player, game_over, winner, moves_applied,
                   passes_in_row, node, agent, seen, probe>>
    /\ UNCHANGED <<timed, threads, tree>>

\* the agents copy themselves and search while the game goes on
NextAgents ==
    \/ AgentCopy
    \/ AgentSearch
    \/ SimMove
    \/ SimPass
    \/ SimGameOver

SpecAgents == InitAgents /\ [][NextAgents]_vars

----------------------------------------------------------------------------
(* SpecTree: search_tree.py, the arena of nodes and the iterations of search. *)
(* tree.arena holds the fields of the SearchTree, its arrays as functions    *)
(* on 0..MAX_NODES-1; a board is the set of its squares.                     *)

\* the arena holds MAX_NODES nodes (2000000 in search_tree.py)
MAX_NODES == 4
\* the searched positions have at most TreeEmpties empty squares
TreeEmpties == 4
\* search is called with num_simulations in 1..TreeIterations
TreeIterations == 4
\* ... at most TreeCalls times
TreeCalls == 1

NodeIds == 0..(MAX_NODES - 1)

\* search_tree_ctor
search_tree_ctor ==
    [nodes_count |-> 0, root_id |-> 0,
     parent |-> [i \in NodeIds |-> -1],
     first_child |-> [i \in NodeIds |-> -1],
     num_children |-> [i \in NodeIds |-> -1],
     moves |-> [i \in NodeIds |-> -1],
     player_boards |-> [i \in NodeIds |-> {}],
     opponent_boards |-> [i \in NodeIds |-> {}],
     num_visits |-> [i \in NodeIds |-> -1],
     reward |-> [i \in NodeIds |-> -1]]

\* reset(tree)
reset(t) ==
    [t EXCEPT !.nodes_count = 1, !.root_id = 0, !.parent[0] = -1, !.first_child[0] = -1,
              !.num_children[0] = -1, !.num_visits[0] = 0, !.reward[0] = 0]

\* define_root(tree, player_board, opponent_board)
define_root(t, player_board, opponent_board) ==
    [reset(t) EXCEPT !.player_boards[0] = player_board,
                     !.opponent_boards[0] = opponent_board]

\* the boards of the node node_id, the side to move first
node_boards(t, node_id) == << t.player_boards[node_id], t.opponent_boards[node_id] >>

\* the elements of a set of integers in ascending order
RECURSIVE Ascending(_)
Ascending(S) ==
    IF S = {} THEN <<>>
    ELSE LET m == CHOOSE x \in S : \A y \in S : x <= y
         IN  <<m>> \o Ascending(S \ {m})

\* expand: moves, or [-1] when there is none
expand_moves(t, node_id) == Ascending(tree_moves(node_boards(t, node_id)))

\* parent_skiped(tree, node_id)
parent_skiped(t, node_id) ==
    LET parent_id == t.parent[node_id]
    IN  IF parent_id = -1 THEN FALSE
        ELSE (t.player_boards[node_id] \cup t.opponent_boards[node_id])
                = (t.player_boards[parent_id] \cup t.opponent_boards[parent_id])

\* is_terminal(tree, node_id)
is_terminal(t, node_id) == t.num_children[node_id] = 0 /\ parent_skiped(t, node_id)

\* is_fully_expanded(tree, node_id)
is_fully_expanded(t, node_id) ==
    IF t.first_child[node_id] = -1 THEN FALSE
    ELSE \A i \in 0..(t.num_children[node_id] - 1) :
            t.num_visits[t.first_child[node_id] + i] > 0

\* c_param * sqrt(2 * log(N)) / sqrt(visits) for c_param = 1.4, in millionths,
\* by N = 1..8 and visits = 1..8
UCB_TABLE ==
    << <<0, 0, 0, 0, 0, 0, 0, 0>>,
       <<1648374, 1165576, 951689, 824187, 737175, 672946, 623027, 582788>>,
       <<2075225, 1467406, 1198132, 1037613, 928069, 847207, 784361, 733703>>,
       <<2331153, 1648374, 1345892, 1165576, 1042523, 951689, 881093, 824187>>,
       <<2511772, 1776091, 1450172, 1255886, 1123298, 1025426, 949360, 888045>>,
       <<2650226, 1873993, 1530109, 1325113, 1185217, 1081950, 1001691, 936996>>,
       <<2761878, 1952942, 1594571, 1380939, 1235149, 1127532, 1043892, 976471>>,
       <<2855068, 2018838, 1648374, 1427534, 1276825, 1165576, 1079114, 1009419>> >>

\* best_child: the score of the child child_idx, in millionths; c_param is 0
\* or 1.4, and a child without a visit has visits = 1e-10
best_child_score(t, node_id, child_idx, c_param) ==
    IF t.num_visits[child_idx] <= 0
    THEN IF c_param = 0 \/ t.num_visits[node_id] <= 1 THEN 0 ELSE 2000000000
    ELSE (t.reward[child_idx] * 1000000) \div t.num_visits[child_idx]
         + (IF c_param = 0 THEN 0
            ELSE UCB_TABLE[t.num_visits[node_id]][t.num_visits[child_idx]])

\* best_child: the loop, from child i on
RECURSIVE best_child_loop(_, _, _, _, _, _)
best_child_loop(t, node_id, c_param, i, best_score, best_child_index) ==
    IF i >= t.num_children[node_id] THEN best_child_index
    ELSE LET score == best_child_score(t, node_id, t.first_child[node_id] + i, c_param)
         IN  IF score > best_score
             THEN best_child_loop(t, node_id, c_param, i + 1, score, i)
             ELSE best_child_loop(t, node_id, c_param, i + 1, best_score, best_child_index)

\* best_child(tree, node_id, c_param)
best_child(t, node_id, c_param) ==
    t.first_child[node_id] + best_child_loop(t, node_id, c_param, 0, -99999, -1)

\* expand: the boards of the new node are set and the node is returned
expand_select(t, node_id, new_node_id) ==
    LET cb == child_boards(node_boards(t, node_id), t.moves[new_node_id])
    IN  [raised |-> FALSE, expanded |-> node_id, node |-> new_node_id,
         tree |-> [t EXCEPT !.player_boards[new_node_id] = cb[1],
                            !.opponent_boards[new_node_id] = cb[2]]]

\* the children written without tree.nodes_count += nb_moves
expand_write_without_count(t, node_id, moves, first_child_id) ==
    LET nb_moves == Len(moves)
        children == first_child_id..(first_child_id + nb_moves - 1)
    IN  [t EXCEPT !.first_child = [k \in NodeIds |-> IF k = node_id THEN first_child_id
                                                     ELSE IF k \in children THEN -1
                                                     ELSE t.first_child[k]],
                  !.num_children = [k \in NodeIds |-> IF k = node_id THEN nb_moves
                                                      ELSE IF k \in children THEN -1
                                                      ELSE t.num_children[k]],
                  !.moves = [k \in NodeIds |-> IF k \in children
                                               THEN moves[k - first_child_id + 1]
                                               ELSE t.moves[k]],
                  !.parent = [k \in NodeIds |-> IF k \in children THEN node_id
                                                ELSE t.parent[k]],
                  !.num_visits = [k \in NodeIds |-> IF k \in children THEN 0
                                                    ELSE t.num_visits[k]],
                  !.reward = [k \in NodeIds |-> IF k \in children THEN 0 ELSE t.reward[k]]]

\* expand: the nodes of the children are written from first_child_id on
expand_write(t, node_id, moves, first_child_id) ==
    LET nb_moves == Len(moves)
        children == first_child_id..(first_child_id + nb_moves - 1)
    IN  [nodes_count |-> t.nodes_count + nb_moves,
         root_id |-> t.root_id,
         first_child |-> [k \in NodeIds |-> IF k = node_id THEN first_child_id
                                            ELSE IF k \in children THEN -1
                                            ELSE t.first_child[k]],
         num_children |-> [k \in NodeIds |-> IF k = node_id THEN nb_moves
                                             ELSE IF k \in children THEN -1
                                             ELSE t.num_children[k]],
         moves |-> [k \in NodeIds |-> IF k \in children THEN moves[k - first_child_id + 1]
                                      ELSE t.moves[k]],
         parent |-> [k \in NodeIds |-> IF k \in children THEN node_id ELSE t.parent[k]],
         player_boards |-> t.player_boards,
         opponent_boards |-> t.opponent_boards,
         num_visits |-> [k \in NodeIds |-> IF k \in children THEN 0 ELSE t.num_visits[k]],
         reward |-> [k \in NodeIds |-> IF k \in children THEN 0 ELSE t.reward[k]]]

\* expand: if tree.nodes_count + nb_moves > MAX_NODES
expand_over_capacity(t, nb_moves) == t.nodes_count + nb_moves > MAX_NODES

\* the exception raised after nodes_count, first_child and num_children of the
\* node were written
expand_raise_late(t, node_id, nb_moves) ==
    [raised |-> TRUE, expanded |-> node_id, node |-> -1,
     tree |-> [t EXCEPT !.nodes_count = @ + nb_moves,
                        !.first_child[node_id] = t.nodes_count,
                        !.num_children[node_id] = nb_moves]]

\* expand: raise Exception(...), before any field of the tree is written
expand_raise(t, node_id, nb_moves) ==
    [raised |-> TRUE, expanded |-> node_id, node |-> -1, tree |-> t]

\* expand(tree, node_id): the outcomes, one for each np.random.choice
expand(t, node_id) ==
    IF t.first_child[node_id] # -1
    THEN {expand_select(t, node_id, t.first_child[node_id] + move_index) :
             move_index \in {i \in 0..(t.num_children[node_id] - 1) :
                                t.num_visits[t.first_child[node_id] + i] = 0}}
    ELSE IF expand_over_capacity(t, Len(expand_moves(t, node_id)))
    THEN {expand_raise(t, node_id, Len(expand_moves(t, node_id)))}
    ELSE {expand_select(expand_write(t, node_id, expand_moves(t, node_id), t.nodes_count),
                        node_id, t.nodes_count + move_index) :
             move_index \in 0..(Len(expand_moves(t, node_id)) - 1)}

\* tree_policy(tree, node_id): the outcomes
RECURSIVE tree_policy(_, _)
tree_policy(t, node_id) ==
    IF is_terminal(t, node_id)
    THEN {[raised |-> FALSE, expanded |-> -1, node |-> node_id, tree |-> t]}
    ELSE IF ~is_fully_expanded(t, node_id)
    THEN expand(t, node_id)
    ELSE tree_policy(t, best_child(t, node_id, 14))

\* default_policy: the ends of the random playouts from the boards nd, each
\* with the reward returned, the boards and initial_player_color at the end
RECURSIVE default_policy_loop(_, _, _)
default_policy_loop(nd, initial_player_color, pass_count) ==
    IF pass_count >= 2
    THEN {[reward |-> IF count_ones(nd[1]) > count_ones(nd[2]) THEN initial_player_color
                      ELSE -initial_player_color,
           current_player_bb |-> nd[1], opponent_bb |-> nd[2],
           initial_player_color |-> initial_player_color]}
    ELSE IF tree_moves(nd) = {-1}
    THEN default_policy_loop(rollout_pass(nd), -initial_player_color, pass_count + 1)
    ELSE UNION {default_policy_loop(rollout_move(nd, move), -initial_player_color, 0) :
                   move \in tree_moves(nd)}

\* default_policy(tree, node_id)
default_policy(t, node_id) == default_policy_loop(node_boards(t, node_id), 1, 0)

\* backup adding the reward of every ply, whatever its sign
RECURSIVE backup_signed(_, _, _)
backup_signed(t, node_id, reward) ==
    IF node_id = -1 THEN t
    ELSE backup_signed([t EXCEPT !.num_visits[node_id] = @ + 1,
                                 !.reward[node_id] = @ + reward],
                       t.parent[node_id], -reward)

\* backup leaving the loop at the root, whose counts it does not touch
RECURSIVE backup_below_root(_, _, _)
backup_below_root(t, node_id, reward) ==
    IF t.parent[node_id] = -1 THEN t
    ELSE backup_below_root([t EXCEPT !.num_visits[node_id] = @ + 1,
                                     !.reward[node_id] = IF reward = 1 THEN @ + reward
                                                         ELSE @],
                           t.parent[node_id], -reward)

\* backup(tree, node_id, reward)
RECURSIVE backup(_, _, _)
backup(t, node_id, reward) ==
    IF node_id = -1 THEN t
    ELSE backup([t EXCEPT !.num_visits[node_id] = @ + 1,
                          !.reward[node_id] = IF reward = 1 THEN @ + reward ELSE @],
                t.parent[node_id], -reward)

\* search: one iteration of the loop; the exception of expand ends the search.
\* selected is the tree as tree_policy left it, reward what default_policy
\* returned at the end playout of its loop
search_iteration(t) ==
    UNION {IF sel.raised
           THEN {[raised |-> TRUE, expanded |-> sel.expanded, node |-> sel.node,
                  selected |-> sel.tree, reward |-> 0, playout |-> <<>>,
                  tree |-> sel.tree]}
           ELSE {[raised |-> FALSE, expanded |-> sel.expanded, node |-> sel.node,
                  selected |-> sel.tree, reward |-> playout.reward, playout |-> playout,
                  tree |-> backup(sel.tree, sel.node, -playout.reward)] :
                    playout \in default_policy(sel.tree, sel.node)} :
              sel \in tree_policy(t, t.root_id)}

InitTree ==
    /\ InitGame(60 - TreeEmpties)
    /\ agent = NoAgent
    /\ last = NoCall
    /\ seen = {}
    /\ ncalls = 0
    /\ probe = NoProbe
    /\ timed = NoTimed
    /\ threads = <<>>
    /\ players = <<>>
    /\ heap = <<>>
    /\ tree = [pc |-> "idle", num_simulations |-> 0, done |-> 0,
               arena |-> search_tree_ctor]

\* search(tree, current_player_board, opponent_board, num_simulations) is called
\* for the side to move: define_root
TreeSearch ==
    /\ ~game_over
    /\ tree.pc # "searching"
    /\ ncalls < TreeCalls
    /\ array_get_possible_moves(current_player, board) # <<>>
    /\ \E num_simulations \in 1..TreeIterations :
          tree' = [pc |-> "searching", num_simulations |-> num_simulations, done |-> 0,
                   arena |-> define_root(tree.arena,
                                         get_player_board(bitboard, current_player)[1],
                                         get_player_board(bitboard, current_player)[2])]
    /\ ncalls' = ncalls + 1
    /\ last' = [op |-> "define_root"]
    /\ UNCHANGED <<board, bitboard, current_player, game_over, winner, moves_applied,
                   passes_in_row, node, agent, seen, probe>>
    /\ UNCHANGED <<timed, threads, players, heap>>

\* one iteration of the loop of search
TreeIterate ==
    /\ tree.pc = "searching"
    /\ tree.done < tree.num_simulations
    /\ \E r \in search_iteration(tree.arena) :
          /\ tree' = [tree EXCEPT !.pc = IF r.raised THEN "raised" ELSE "searching",
                                  !.done = @ + 1,
                                  !.arena = r.tree]
          /\ last' = [op |-> "iteration", raised |-> r.raised, expanded |-> r.expanded,
                      node |-> r.node, before |-> tree.arena, selected |-> r.selected,
                      reward |-> r.reward, playout |-> r.playout]
    /\ UNCHANGED coreVars_but_last
    /\ UNCHANGED <<timed, threads, players, heap>>

\* search returns tree.moves[best_child(tree, root, c_param=0)]
TreeReturn ==
    /\ tree.pc = "searching"
    /\ tree.done = tree.num_simulations
    /\ tree' = [tree EXCEPT !.pc = "idle"]
    /\ last' = [op |-> "search", raised |-> FALSE,
                move |-> tree.arena.moves[best_child(tree.arena, tree.arena.root_id, 0)]]
    /\ UNCHANGED coreVars_but_last
    /\ UNCHANGED <<timed, threads, players, heap>>

\* the tree searches positions of the game as it goes on
NextTree ==
    \/ TreeSearch
    \/ TreeIterate
    \/ TreeReturn
    \/ (tree.pc # "searching" /\ SimMove)
    \/ (tree.pc # "searching" /\ SimPass)
    \/ (tree.pc # "searching" /\ SimGameOver)

SpecTree == InitTree /\ [][NextTree]_vars

----------------------------------------------------------------------------
(* SpecMcts: agents/mcts.py, the MCTSNode objects of one search.  tree.nodes  *)
(* holds the nodes in the order of their creation, node 1 the root; parent   *)
(* and children are indices of it, parent 0 is None.  An attribute that is   *)
(* None until it is computed is None or <<value>>.                           *)

\* the searched positions have at most MctsEmpties empty squares
MctsEmpties == 3
\* search is called with nb_iterations in 1..MctsIterations
MctsIterations == 4
\* ... at most MctsCalls times
MctsCalls == 1

\* MCTSNode.__init__; children_visits and children_rewards are given the
\* entries of the children there are
MCTSNode_init(b, player_id, parent, move) ==
    [board |-> b, move |-> move, player_id |-> player_id, parent |-> parent,
     children |-> <<>>, visits |-> 0, rewards |-> [k \in 0..2 |-> 0],
     untried_moves |-> None, opponent_untried_moves |-> None, skip |-> FALSE,
     children_visits |-> <<>>, children_rewards |-> <<>>]

\* the property untried_moves: the node once it was read
MCTSNode_untried_moves(self) ==
    IF self.untried_moves = None
    THEN LET moves == array_get_possible_moves(self.player_id, self.board)
         IN  [self EXCEPT !.untried_moves = <<moves>>,
                          !.skip = IF Len(moves) = 0 THEN TRUE ELSE @]
    ELSE self

\* the property opponent_untried_moves: the node once it was read
MCTSNode_opponent_untried_moves(self) ==
    IF self.opponent_untried_moves = None
    THEN [self EXCEPT !.opponent_untried_moves =
                         <<array_get_possible_moves(3 - self.player_id, self.board)>>]
    ELSE self

\* MCTSNode.is_terminal: the value returned and the node after the call
MCTSNode_is_terminal(self) ==
    LET s1 == MCTSNode_untried_moves(self)
        s2 == MCTSNode_opponent_untried_moves(s1)
    IN  IF Len(s1.untried_moves[1]) = 0
        THEN [ret |-> Len(s2.opponent_untried_moves[1]) = 0, self |-> s2]
        ELSE [ret |-> FALSE, self |-> s1]

\* MCTSNode.is_fully_expanded
MCTSNode_is_fully_expanded(self) ==
    LET s1 == MCTSNode_untried_moves(self)
    IN  [ret |-> Len(s1.untried_moves[1]) = 0 /\ ~s1.skip, self |-> s1]

\* the sequence s without its element at index k
RemoveAt(s, k) == [j \in 1..(Len(s) - 1) |-> IF j < k THEN s[j] ELSE s[j + 1]]

\* MCTSNode.expand: self.children.append(child_node)
MCTSNode_expand_append(nodes, i, self, child_node) ==
    [node |-> Len(nodes) + 1,
     nodes |-> Append([nodes EXCEPT ![i] =
                          [self EXCEPT !.children = Append(@, Len(nodes) + 1),
                                       !.children_visits = Append(@, 0),
                                       !.children_rewards = Append(@, 0)]],
                      child_node)]

\* MCTSNode.expand of the node i: the outcomes, one for each np.random.randint
MCTSNode_expand(nodes, i) ==
    LET self == nodes[i]
    IN  IF self.skip
        THEN {MCTSNode_expand_append(nodes, i, [self EXCEPT !.skip = FALSE],
                                     MCTSNode_init(self.board, 3 - self.player_id, i, None))}
        ELSE {MCTSNode_expand_append(
                  nodes, i,
                  [self EXCEPT !.untried_moves = <<RemoveAt(@[1], move_index)>>],
                  MCTSNode_init(array_flip_tiles(self.untried_moves[1][move_index],
                                                 self.player_id, self.board),
                                3 - self.player_id, i, self.untried_moves[1][move_index])) :
                 move_index \in 1..Len(self.untried_moves[1])}

\* sqrt(2 * log(node_visits) / children_visits) in millionths, by node_visits
\* and children_visits in 1..9
MCTS_UCB_TABLE ==
    << <<0, 0, 0, 0, 0, 0, 0, 0, 0>>,
       <<1177410, 832554, 679777, 588705, 526553, 480675, 445019, 416277, 392470>>,
       <<1482303, 1048147, 855808, 741151, 662906, 605147, 560258, 524073, 494101>>,
       <<1665109, 1177410, 961351, 832554, 744659, 679777, 629352, 588705, 555036>>,
       <<1794122, 1268636, 1035837, 897061, 802356, 732447, 678114, 634318, 598040>>,
       <<1893018, 1338566, 1092934, 946509, 846583, 772821, 715493, 669283, 631006>>,
       <<1972769, 1394958, 1138979, 986384, 882249, 805379, 745636, 697479, 657589>>,
       <<2039333, 1442026, 1177410, 1019666, 912017, 832554, 770795, 721013, 679777>>,
       <<2096294, 1482303, 1210295, 1048147, 937491, 855808, 792324, 741151, 698764>> >>

\* MCTSNode.best_index: choices_weights in millionths; c is an int32 of the
\* signature, 0 or 1 (1.4 converted)
MCTSNode_choices_weights(node_visits, children_visits, children_rewards, c, k) ==
    (children_rewards[k] * 1000000) \div children_visits[k]
    + c * MCTS_UCB_TABLE[node_visits][children_visits[k]]

\* MCTSNode.best_index: np.argmax, the first index of the maximum
MCTSNode_best_index(nb_children, node_visits, children_visits, children_rewards, c) ==
    LET w(k) == MCTSNode_choices_weights(node_visits, children_visits, children_rewards, c, k)
        considered == 1..Min(nb_children, node_visits)
    IN  CHOOSE k \in considered :
           /\ \A j \in considered : w(j) <= w(k)
           /\ \A j \in considered : j < k => w(j) < w(k)

\* MCTSNode.best_child: the index of the child in nodes, 0 for None
MCTSNode_best_child(nodes, i, c) ==
    IF Len(nodes[i].children) = 0 THEN 0
    ELSE nodes[i].children[MCTSNode_best_index(Len(nodes[i].children), nodes[i].visits,
                                               nodes[i].children_visits,
                                               nodes[i].children_rewards, c)]

\* the index of the node i in the children of its parent
IndexInParent(nodes, i) ==
    CHOOSE k \in 1..Len(nodes[nodes[i].parent].children) :
       nodes[nodes[i].parent].children[k] = i

\* MCTSNode.backup(result) of the node i
RECURSIVE MCTSNode_backup(_, _, _)
MCTSNode_backup(nodes, i, result) ==
    LET self == [nodes[i] EXCEPT !.visits = @ + 1, !.rewards[result] = @ + 1]
        n1 == [nodes EXCEPT ![i] = self]
    IN  IF self.parent = 0 THEN n1
        ELSE LET index_in_parent == IndexInParent(nodes, i)
                 p == self.parent
             IN  MCTSNode_backup(
                     [n1 EXCEPT ![p].children_visits[index_in_parent] = @ + 1,
                                ![p].children_rewards[index_in_parent] =
                                    self.rewards[nodes[p].player_id]],
                     p, result)

\* MCTSAgent.tree_policy from the node i on: the outcomes
RECURSIVE MCTSAgent_tree_policy(_, _)
MCTSAgent_tree_policy(nodes, i) ==
    LET t == MCTSNode_is_terminal(nodes[i])
        f == MCTSNode_is_fully_expanded(t.self)
        n1 == [nodes EXCEPT ![i] = f.self]
    IN  IF t.ret
        THEN {[node |-> i, nodes |-> [nodes EXCEPT ![i] = t.self]]}
        ELSE IF ~f.ret
        THEN MCTSNode_expand(n1, i)
        ELSE MCTSAgent_tree_policy(n1, MCTSNode_best_child(n1, i, 1))

\* MCTSAgent.default_policy: the results the random playout can end with
RECURSIVE MCTSAgent_default_policy_loop(_, _, _, _)
MCTSAgent_default_policy_loop(simu_board, player, pass_count, player_id) ==
    IF pass_count >= 2
    THEN LET player_disks == count_nonzero(simu_board, player_id)
             opponent_disks == count_nonzero(simu_board, 3 - player_id)
         IN  {IF player_disks > opponent_disks THEN player_id
              ELSE IF opponent_disks > player_disks THEN 3 - player_id
              ELSE 0}
    ELSE LET moves == array_get_possible_moves(player, simu_board)
         IN  IF Len(moves) = 0
             THEN MCTSAgent_default_policy_loop(simu_board, 3 - player,
                                                pass_count + 1, player_id)
             ELSE UNION {MCTSAgent_default_policy_loop(
                             array_flip_tiles(moves[move_index], player, simu_board),
                             3 - player, 0, player_id) :
                            move_index \in 1..Len(moves)}

\* MCTSAgent.default_policy(board, player_id)
MCTSAgent_default_policy(b, player_id) ==
    MCTSAgent_default_policy_loop(b, player_id, 0, player_id)

\* MCTSAgent.search: one iteration of the loop
MCTSAgent_search_iteration(nodes) ==
    UNION {{[node |-> sel.node, result |-> result,
             nodes |-> MCTSNode_backup(sel.nodes, sel.node, result)] :
               result \in MCTSAgent_default_policy(sel.nodes[sel.node].board,
                                                   sel.nodes[sel.node].player_id)} :
             sel \in MCTSAgent_tree_policy(nodes, 1)}

InitMcts ==
    /\ InitGame(60 - MctsEmpties)
    /\ agent = NoAgent
    /\ last = NoCall
    /\ seen = {}
    /\ ncalls = 0
    /\ probe = NoProbe
    /\ timed = NoTimed
    /\ threads = <<>>
    /\ players = <<>>
    /\ heap = <<>>
    /\ tree = [pc |-> "idle", nb_iterations |-> 0, done |-> 0, nodes |-> <<>>]

\* MCTSAgent.search(board) of the agent of the side to move: the root is made
MctsSearch ==
    /\ ~game_over
    /\ tree.pc # "searching"
    /\ ncalls < MctsCalls
    /\ \E nb_iterations \in 1..MctsIterations :
          tree' = [pc |-> "searching", nb_iterations |-> nb_iterations, done |-> 0,
                   nodes |-> <<MCTSNode_init(board, current_player, 0, None)>>]
    /\ ncalls' = ncalls + 1
    /\ last' = [op |-> "root"]
    /\ UNCHANGED <<board, bitboard, current_player, game_over, winner, moves_applied,
                   passes_in_row, node, agent, seen, probe>>
    /\ UNCHANGED <<timed, threads, players, heap>>

\* one iteration of the loop of search
MctsIterate ==
    /\ tree.pc = "searching"
    /\ tree.done < tree.nb_iterations
    /\ \E r \in MCTSAgent_search_iteration(tree.nodes) :
          /\ tree' = [tree EXCEPT !.done = @ + 1, !.nodes = r.nodes]
          /\ last' = [op |-> "iteration", node |-> r.node, result |-> r.result,
                      before |-> tree.nodes]
    /\ UNCHANGED coreVars_but_last
    /\ UNCHANGED <<timed, threads, players, heap>>

\* search returns the move of self.root.best_child(0), or None
MctsReturn ==
    /\ tree.pc = "searching"
    /\ tree.done = tree.nb_iterations
    /\ tree' = [tree EXCEPT !.pc = "idle"]
    /\ last' = [op |-> "search",
                move |-> IF MCTSNode_best_child(tree.nodes, 1, 0) = 0 THEN None
                         ELSE tree.nodes[MCTSNode_best_child(tree.nodes, 1, 0)].move]
    /\ UNCHANGED coreVars_but_last
    /\ UNCHANGED <<timed, threads, players, heap>>

\* the agent searches positions of the game as it goes on
NextMcts ==
    \/ MctsSearch
    \/ MctsIterate
    \/ MctsReturn
    \/ (tree.pc # "searching" /\ SimMove)
    \/ (tree.pc # "searching" /\ SimPass)
    \/ (tree.pc # "searching" /\ SimGameOver)

SpecMcts == InitMcts /\ [][NextMcts]_vars

(* SpecRollout: default_policy of search_tree.py applied to the root of a    *)
(* tree defined on a sampled board.                                          *)

\* the sampled boards have at most RolloutEmpties empty squares
RolloutEmpties == 2
\* ... and at most RolloutRecoloured discs of side 2 among those of side 1
RolloutRecoloured == 2

\* the squares that are emptied or recoloured: columns 0..2 of rows 2 and 3
RolloutRegion == {8 * r + c : r \in 2..3, c \in 0..2}

\* full boards, rows 0..3 of side 1 and rows 4..7 of side 2, but for the
\* squares of the region that are empty or of side 2
RolloutBoards ==
    {<<(0..31) \ (E \cup F), (32..63) \cup F>> :
        <<E, F>> \in {ef \in (SUBSET RolloutRegion) \X (SUBSET RolloutRegion) :
                        /\ ef[1] \cap ef[2] = {}
                        /\ Cardinality(ef[1]) <= RolloutEmpties
                        /\ Cardinality(ef[2]) <= RolloutRecoloured}}

InitRollout ==
    /\ bitboard \in RolloutBoards
    /\ board = bitboard_to_2d_array(bitboard)
    /\ current_player \in {PLAYER1, PLAYER2}
    /\ node = get_player_board(bitboard, current_player)
    /\ game_over = FALSE
    /\ winner = -1
    /\ moves_applied = 0
    /\ passes_in_row = 0
    /\ agent = NoAgent
    /\ last = NoCall
    /\ seen = {}
    /\ ncalls = 0
    /\ probe = NoProbe
    /\ timed = NoTimed
    /\ threads = <<>>
    /\ players = <<>>
    /\ heap = <<>>
    /\ tree = [pc |-> "idle", num_simulations |-> 0, done |-> 0,
               arena |-> define_root(search_tree_ctor,
                                     get_player_board(bitboard, current_player)[1],
                                     get_player_board(bitboard, current_player)[2])]

\* default_policy(tree, root): one random playout
CallDefaultPolicy ==
    /\ last = NoCall
    /\ \E playout \in default_policy(tree.arena, tree.arena.root_id) :
          last' = [op |-> "default_policy", node |-> tree.arena.root_id,
                   reward |-> playout.reward, playout |-> playout]
    /\ UNCHANGED coreVars_but_last
    /\ UNCHANGED extVars

NextRollout == CallDefaultPolicy

SpecRollout == InitRollout /\ [][NextRollout]_vars

(* SpecFuncTimeout: func_timeout.py applied to a function that takes some    *)
(* steps and then returns a value or raises.  timed holds the locals of the   *)
(* call, threads[1] the thread of funcwrap; elapsed records that the timeout  *)
(* of the first join passed while the thread was alive.                       *)

\* func takes at most FuncSteps steps before it returns or raises
FuncSteps == 2

\* the functions called: what they end with, and after how many steps
Funcs ==
    {[ends |-> "return", value |-> v, steps |-> n] : v \in {0, 1}, n \in 1..FuncSteps}
    \cup {[ends |-> e, value |-> 0, steps |-> n] :
             e \in {"Exception", "FunctionTimedOut"}, n \in 1..FuncSteps}

\* func_timeout: ret = [], exception = [], isStopped = False, thread.start()
func_timeout_start(func) ==
    [pc |-> "join", func |-> func, ret |-> <<>>, exception |-> <<>>, isStopped |-> FALSE,
     elapsed |-> FALSE, completed_in_time |-> FALSE, outcome |-> "none", value |-> 0]

\* funcwrap: func has returned or raised
funcwrap(call) ==
    IF call.func.ends = "return"
    THEN [call EXCEPT !.ret = Append(@, call.func.value)]
    ELSE IF call.func.ends = "FunctionTimedOut"
    THEN call
    ELSE IF call.isStopped = FALSE
    THEN [call EXCEPT !.exception = Append(@, "Exception")]
    ELSE call

\* func_timeout: if thread.is_alive(), the thread being alive or not
func_timeout_is_alive(call, alive) ==
    IF alive THEN [call EXCEPT !.pc = "join_stopped", !.isStopped = TRUE]
    ELSE [call EXCEPT !.pc = "result"]

\* func_timeout: if exception: raise FunctionTimedOut(); if ret: return ret[0]
func_timeout_result(call) ==
    IF call.exception # <<>>
    THEN [call EXCEPT !.pc = "done", !.outcome = "FunctionTimedOut"]
    ELSE IF call.ret # <<>>
    THEN [call EXCEPT !.pc = "done", !.outcome = "return", !.value = call.ret[1]]
    ELSE [call EXCEPT !.pc = "done", !.outcome = "return_none"]

InitFuncTimeout ==
    /\ InitGame(0)
    /\ agent = NoAgent
    /\ last = NoCall
    /\ seen = {}
    /\ ncalls = 0
    /\ probe = NoProbe
    /\ timed = [pc |-> "idle"]
    /\ threads = <<>>
    /\ players = <<>>
    /\ heap = <<>>
    /\ tree = NoTree

\* func_timeout(timeout, func) is called: the thread is started and joined
FuncTimeoutCall ==
    /\ timed.pc = "idle"
    /\ \E func \in Funcs :
          /\ timed' = func_timeout_start(func)
          /\ threads' = <<[left |-> func.steps, alive |-> TRUE]>>
    /\ UNCHANGED coreVars
    /\ UNCHANGED <<players, heap, tree>>

\* a step of func in the thread
FuncStep ==
    /\ timed.pc # "idle"
    /\ threads[1].alive
    /\ threads[1].left > 0
    /\ threads' = <<[threads[1] EXCEPT !.left = @ - 1]>>
    /\ UNCHANGED coreVars
    /\ UNCHANGED <<timed, players, heap, tree>>

\* func returns or raises in the thread, which ends
FuncEnd ==
    /\ timed.pc # "idle"
    /\ threads[1].alive
    /\ threads[1].left = 0
    /\ threads' = <<[threads[1] EXCEPT !.alive = FALSE]>>
    /\ timed' = [funcwrap(timed) EXCEPT !.completed_in_time = ~timed.elapsed]
    /\ UNCHANGED coreVars
    /\ UNCHANGED <<players, heap, tree>>

\* thread.join(timeout) returns because the thread has ended
FuncJoinReturn ==
    /\ timed.pc = "join"
    /\ ~threads[1].alive
    /\ timed' = [timed EXCEPT !.pc = "is_alive"]
    /\ UNCHANGED coreVars
    /\ UNCHANGED <<threads, players, heap, tree>>

\* thread.join(timeout) returns because the timeout has passed
FuncJoinTimeout ==
    /\ timed.pc = "join"
    /\ threads[1].alive
    /\ timed' = [timed EXCEPT !.pc = "is_alive", !.elapsed = TRUE]
    /\ UNCHANGED coreVars
    /\ UNCHANGED <<threads, players, heap, tree>>

\* if thread.is_alive(): isStopped = True; thread.stop()
FuncIsAlive ==
    /\ timed.pc = "is_alive"
    /\ timed' = func_timeout_is_alive(timed, threads[1].alive)
    /\ UNCHANGED coreVars
    /\ UNCHANGED <<threads, players, heap, tree>>

\* thread.join(min(0.1, timeout / 50.0)); raise FunctionTimedOut()
FuncRaiseTimedOut ==
    /\ timed.pc = "join_stopped"
    /\ timed' = [timed EXCEPT !.pc = "done", !.outcome = "FunctionTimedOut"]
    /\ UNCHANGED coreVars
    /\ UNCHANGED <<threads, players, heap, tree>>

\* the thread was not alive: the end of func_timeout
FuncResult ==
    /\ timed.pc = "result"
    /\ timed' = func_timeout_result(timed)
    /\ UNCHANGED coreVars
    /\ UNCHANGED <<threads, players, heap, tree>>

NextFuncTimeout ==
    \/ FuncTimeoutCall
    \/ FuncStep
    \/ FuncEnd
    \/ FuncJoinReturn
    \/ FuncJoinTimeout
    \/ FuncIsAlive
    \/ FuncRaiseTimedOut
    \/ FuncResult

SpecFuncTimeout == InitFuncTimeout /\ [][NextFuncTimeout]_vars

(* SpecLoop: one turn of the game loops of othello.py and                     *)
(* othello_simulation.py with a player that may return anything: a           *)
(* HumanPlayer that is given a click, or a Player whose get_move returns     *)
(* None, (-1, -1) or any square.  last holds the position before the turn,   *)
(* the value returned and passes_in_row after the turn.                       *)

\* the loops start at the opening and at the last LoopEmpties plies of the
\* recorded game
LoopEmpties == 3
\* ... and ask the players for at most LoopTurns moves
LoopTurns == 1

\* (row, col) of a click on the board, or no click at all
Clicks == (Rows \X Cols) \cup {<<>>}

\* what get_move of a Player may return: None, (-1, -1), a square
PlayerReturns == (Rows \X Cols) \cup {<<>>, <<-1, -1>>}

\* HumanPlayer.get_move: the click if (row, col) in valid_moves, else None
HumanPlayer_get_move(valid_moves, click) ==
    IF click # <<>> /\ NumpyContains(valid_moves, click) THEN click ELSE <<>>

\* if move in current_player_valid_moves: flip_tiles(move, id, board) and the
\* other player is to move
loop_apply(move, valid_moves) ==
    IF move # <<>> /\ NumpyContains(valid_moves, move)
    THEN /\ board' = array_flip_tiles(move, current_player, board)
         /\ bitboard' = array_to_bitboard(array_flip_tiles(move, current_player, board))
         /\ node' = get_player_board(
                       array_to_bitboard(array_flip_tiles(move, current_player, board)),
                       3 - current_player)
         /\ current_player' = 3 - current_player
         /\ moves_applied' = moves_applied + 1
         /\ passes_in_row' = 0
    ELSE UNCHANGED <<board, bitboard, node, current_player, moves_applied, passes_in_row>>

InitLoop ==
    /\ \E k \in {0, 60 - LoopEmpties} : InitGame(k)
    /\ NoSearch

\* simulate_game: move = current_player.get_move(...), applied if move in
\* current_player_valid_moves
LoopTurn ==
    /\ ~game_over
    /\ ncalls < LoopTurns
    /\ array_get_possible_moves(current_player, board) # <<>>
    /\ \E move \in PlayerReturns :
          /\ loop_apply(move, array_get_possible_moves(current_player, board))
          /\ last' = [op |-> "turn", loop |-> "simulate_game", move |-> move,
                      board |-> board, player |-> current_player,
                      passes |-> passes_in_row']
    /\ ncalls' = ncalls + 1
    /\ UNCHANGED <<game_over, winner, agent, seen, probe>>
    /\ UNCHANGED extVars

\* run_game_gui with a HumanPlayer to move: the events hold a click or none
GuiTurn ==
    /\ ~game_over
    /\ ncalls < LoopTurns
    /\ array_get_possible_moves(current_player, board) # <<>>
    /\ \E click \in Clicks :
          \E move \in {HumanPlayer_get_move(
                          array_get_possible_moves(current_player, board), click)} :
             /\ loop_apply(move, array_get_possible_moves(current_player, board))
             /\ last' = [op |-> "turn", loop |-> "run_game_gui", move |-> move,
                         board |-> board, player |-> current_player,
                         passes |-> passes_in_row']
    /\ ncalls' = ncalls + 1
    /\ UNCHANGED <<game_over, winner, agent, seen, probe>>
    /\ UNCHANGED extVars

NextLoop ==
    \/ LoopTurn
    \/ GuiTurn
    \/ SimPass

SpecLoop == InitLoop /\ [][NextLoop]_vars

(* SpecParity: disk_parity_heuristic applied to disc counts.                 *)
(* SpecEval: the evaluators and the depth-1 search applied to boards.        *)

\* the disc counts of the two sides of a board
DiscCounts ==
    {pc \in (0..Cardinality(Squares)) \X (0..Cardinality(Squares)) :
        pc[1] + pc[2] <= Cardinality(Squares)}

InitParity ==
    /\ InitGame(0)
    /\ agent = NoAgent
    /\ last = NoCall
    /\ seen = {}
    /\ ncalls = 0
    /\ \E pc \in DiscCounts :
          probe = [op |-> "disc_counts", player_disks |-> pc[1], opponent_disks |-> pc[2]]
    /\ NoExt

\* disk_parity_heuristic(player_disks, opponent_disks)
CallDiskParity ==
    /\ probe.op = "disc_counts"
    /\ probe' = [op |-> "disk_parity_heuristic",
                 player_disks |-> probe.player_disks,
                 opponent_disks |-> probe.opponent_disks,
                 raised |-> disk_parity_heuristic_raises(probe.player_disks,
                                                         probe.opponent_disks),
                 value |-> IF disk_parity_heuristic_raises(probe.player_disks,
                                                           probe.opponent_disks)
                           THEN 0
                           ELSE disk_parity_heuristic(probe.player_disks,
                                                      probe.opponent_disks)]
    /\ UNCHANGED <<board, bitboard, current_player, game_over, winner, moves_applied,
                   passes_in_row, node, agent, last, seen, ncalls>>
    /\ UNCHANGED extVars

NextParity == CallDiskParity

SpecParity == InitParity /\ [][NextParity]_vars

\* the sampled boards the evaluators are applied to hold at most EvalDiscs discs
EvalDiscs == 2

\* boards with disjoint masks: the positions of the recorded game, the boards
\* with a few discs (the empty board among them) and the boards one side fills
EvalBoards ==
    {array_to_bitboard(Replay(OpeningBoard, PLAYER1, RecordedGame, k).board) :
        k \in 0..Len(RecordedGame)}
    \cup {bb \in SampleBoards : Cardinality(bb[1]) + Cardinality(bb[2]) <= EvalDiscs}
    \cup {<<Squares, {}>>, <<{}, Squares>>}

InitEval ==
    /\ bitboard \in EvalBoards
    /\ board = bitboard_to_2d_array(bitboard)
    /\ current_player = PLAYER1
    /\ node = get_player_board(bitboard, current_player)
    /\ game_over = FALSE
    /\ winner = -1
    /\ moves_applied = 0
    /\ passes_in_row = 0
    /\ agent = NoAgent
    /\ last = NoCall
    /\ seen = {}
    /\ ncalls = 0
    /\ probe = NoProbe
    /\ NoExt

\* self.heuristic(board, player_id) for the evaluator of each name
CallHeuristic ==
    /\ last = NoCall
    /\ probe = NoProbe
    /\ \E name \in EvaluatorNames, player_id \in {PLAYER1, PLAYER2} :
          probe' = [op |-> "heuristic", name |-> name, player_id |-> player_id,
                    raised |-> evaluator_raises(name, board, player_id),
                    value |-> IF evaluator_raises(name, board, player_id) THEN 0
                              ELSE evaluator(name, board, player_id)]
    /\ UNCHANGED <<board, bitboard, current_player, game_over, winner, moves_applied,
                   passes_in_row, node, agent, last, seen, ncalls>>
    /\ UNCHANGED extVars

\* self.negamax(board, 1, -32767, 32767, 1) of a MinimaxPlayer with an empty
\* table, for a side that has a move
CallNegamaxDepthOne ==
    /\ probe = NoProbe
    /\ last = NoCall
    /\ \E self \in [id : {PLAYER1, PLAYER2}, depth : {1}, heuristic : Heuristics,
                    shuffle : {0, 1}, transposition_table : {EmptyTable}] :
          /\ array_get_possible_moves(self.id, board) # <<>>
          /\ \E r \in {negamax(self, board, 1, INT16_NEGINF, INT16_POSINF, 1, EmptyTable)} :
                last' = [op |-> "negamax", self |-> self, board |-> board,
                         value |-> r.value, best_move |-> r.best_move]
    /\ UNCHANGED <<board, bitboard, current_player, game_over, winner, moves_applied,
                   passes_in_row, node, agent, seen, ncalls, probe>>
    /\ UNCHANGED extVars

NextEval ==
    \/ CallHeuristic
    \/ CallNegamaxDepthOne

SpecEval == InitEval /\ [][NextEval]_vars

----------------------------------------------------------------------------
(* Properties of the board engine and of the game loop *)

Other(p) == 3 - p

\* C4: for every board reachable from the opening by legal moves and passes and
\* for either side, every square returned by get_possible_moves is empty, and
\* flip_tiles on it for that side strictly decreases the opponent's disc count.
C4_LegalMovesFlip ==
    \A p \in {PLAYER1, PLAYER2} :
        \A m \in SeqToSet(get_possible_moves(p, bitboard)) :
            /\ (8 * m[1] + m[2]) \notin (bitboard[1] \cup bitboard[2])
            /\ count_ones(flip_tiles(m, p, bitboard)[Other(p)])
                 < count_ones(bitboard[Other(p)])

\* a board reached through moves and a pass, on which both sides have moves
C4_Witness ==
    /\ moves_applied > 60 - EndgameEmpties + 2
    /\ Len(get_possible_moves(PLAYER1, bitboard)) >= 2
    /\ Len(get_possible_moves(PLAYER2, bitboard)) >= 1

\* the squares from which some direction holds one or more contiguous discs of
\* the opponent ended by a disc of the mover before the board edge
LegalSquares(p, bb) ==
    {sq \in Squares :
        /\ sq \notin (bb[1] \cup bb[2])
        /\ \E dr \in {-1, 0, 1}, dc \in {-1, 0, 1}, n \in 1..6 :
              /\ <<dr, dc>> # <<0, 0>>
              /\ InBoard((sq \div 8) + (n + 1) * dr, (sq % 8) + (n + 1) * dc)
              /\ (8 * ((sq \div 8) + (n + 1) * dr) + (sq % 8) + (n + 1) * dc) \in bb[p]
              /\ \A k \in 1..n :
                    (8 * ((sq \div 8) + k * dr) + (sq % 8) + k * dc) \in bb[Other(p)]}

\* C5: for every board with disjoint masks and either side, get_possible_moves
\* returns exactly the empty squares from which some direction holds one or
\* more contiguous opponent discs ended by a disc of the mover before the edge;
\* on the opening board with side 1 to move: (2,3), (3,2), (4,5), (5,4).
C5_PossibleMovesExact ==
    probe.op = "get_possible_moves" =>
        /\ {8 * m[1] + m[2] : m \in SeqToSet(probe.out)}
              = LegalSquares(current_player, bitboard)
        /\ Len(probe.out) = Cardinality(LegalSquares(current_player, bitboard))
        /\ (bitboard = array_to_bitboard(OpeningBoard) /\ current_player = PLAYER1) =>
               SeqToSet(probe.out) = {<<2, 3>>, <<3, 2>>, <<4, 5>>, <<5, 4>>}

\* the only opponent disc next to a legal square of the east edge lies west of it,
\* and an opponent disc on (0,7) is bit-adjacent to the empty square (1,0)
C5_Witness ==
    /\ probe.op = "get_possible_moves"
    /\ <<0, 7>> \in SeqToSet(probe.out)
    /\ 6 \in bitboard[Other(current_player)]
    /\ bitboard[Other(current_player)] \cap {14, 15} = {}

\* C6: in every board reachable from the opening position by legal moves and
\* passes no square is occupied by both sides: in the bitboard of the game, in
\* the boards of a rollout and in the boards of every child a tree node gets.
C6_MasksDisjoint ==
    /\ bitboard[1] \cap bitboard[2] = {}
    /\ node[1] \cap node[2] = {}
    /\ \A m \in tree_moves(node) :
          child_boards(node, m)[1] \cap child_boards(node, m)[2] = {}

\* a board reached by flipping moves and a pass
C6_Witness ==
    /\ moves_applied > 60 - EndgameEmpties
    /\ passes_in_row = 1
    /\ count_ones(bitboard[1]) + count_ones(bitboard[2]) > 58

\* C7: every applied move adds exactly one disc and a pass adds none, so the
\* number of discs on the board is always 4 plus the number of moves applied
\* and never decreases (array board and bitboard).
C7_DiscCount ==
    /\ count_nonzero(board, 1) + count_nonzero(board, 2) = 4 + moves_applied
    /\ count_ones(bitboard[1]) + count_ones(bitboard[2]) = 4 + moves_applied

\* a pass was just made after moves were applied
C7_Witness ==
    /\ moves_applied >= 60 - EndgameEmpties + 2
    /\ passes_in_row = 1

NoMoves(b) ==
    /\ array_get_possible_moves(PLAYER1, b) = <<>>
    /\ array_get_possible_moves(PLAYER2, b) = <<>>

\* C8: simulate_game between two random agents terminates: at most 60 moves
\* are applied, the loop ends exactly when neither side has a legal move, and
\* the result is 1, 2 or 0 as side 1 has more, fewer or as many discs as side 2.
C8_SimulationTerminates ==
    /\ [](moves_applied <= 60)
    /\ [](game_over => NoMoves(board))
    /\ [](game_over =>
            /\ winner = 1 <=> count_nonzero(board, 1) > count_nonzero(board, 2)
            /\ winner = 2 <=> count_nonzero(board, 1) < count_nonzero(board, 2)
            /\ winner = 0 <=> count_nonzero(board, 1) = count_nonzero(board, 2))
    /\ [](~game_over => winner = -1)
    /\ (NoMoves(board) ~> game_over)
    /\ ((moves_applied >= 60 - EndgameEmpties) ~> game_over)

\* a game that ran through a pass to its end with a winner
C8_Witness ==
    /\ game_over
    /\ winner \in {1, 2}
    /\ moves_applied > 60 - EndgameEmpties + 2

----------------------------------------------------------------------------
(* Properties of the MinimaxPlayer *)

\* the greatest element of a non-empty set of integers
MaxOf(S) == CHOOSE x \in S : \A y \in S : x >= y

\* full-width minimax to the given depth with the agent's evaluator: a leaf
\* at depth 0 or when neither side can move, a forced pass hands the turn over
\* without consuming depth, no pruning, no table
RECURSIVE naive_minimax(_, _, _, _)
naive_minimax(self, b, depth, color) ==
    LET player_id == IF color = 1 THEN self.id ELSE 3 - self.id
        player_moves == array_get_possible_moves(player_id, b)
        opponent_moves == array_get_possible_moves(3 - player_id, b)
    IN  IF depth = 0 \/ (player_moves = <<>> /\ opponent_moves = <<>>)
        THEN color * heuristic(self, b, self.id)
        ELSE IF player_moves = <<>>
        THEN -naive_minimax(self, b, depth, -color)
        ELSE MaxOf({-naive_minimax(self, array_flip_tiles(m, player_id, b),
                                   depth - 1, -color) : m \in SeqToSet(player_moves)})

\* the value of the full-window search of the agent on a given table
FullWindowValue(b, tt) ==
    negamax(agent, b, agent.depth, INT16_NEGINF, INT16_POSINF, 1, tt).value

\* C1: negamax(board, d, -32767, 32767, 1) called with an empty transposition
\* table returns the value of the naive full-width depth-d minimax of the
\* position with the same evaluator (d <= MaxDepth <= 4).
C1_NegamaxIsMinimax ==
    (last.op = "negamax" /\ last.table_before = EmptyTable) =>
        last.value = naive_minimax(agent, last.board, agent.depth, 1)

\* C2: with the shuffle and the depth fixed, all the full-window searches an
\* agent runs on one position return the same value, the value returned on an
\* empty table, however the table has filled up meanwhile.
C2_RepeatedSearchSameValue ==
    /\ \A x \in seen, y \in seen : x.board = y.board => x.value = y.value
    /\ \A x \in seen : x.value = FullWindowValue(x.board, EmptyTable)

\* C3: mtdf(board, f, d) leaves its loop after finitely many probes with
\* lowerBound >= upperBound and returns the value of the full-window search
\* negamax(board, d, -32767, 32767, 1).
C3_MtdfIsNegamax ==
    last.op = "mtdf" =>
        /\ last.lowerBound >= last.upperBound
        /\ last.value = FullWindowValue(last.board, last.table_before)

PassPosition(id, b) ==
    /\ array_get_possible_moves(id, b) = <<>>
    /\ array_get_possible_moves(3 - id, b) # <<>>

\* C9: when the agent has no legal move and the opponent has one, negamax at
\* the root and mtdf return the pass sentinel (-1, -1) and leave the board they
\* were given unchanged, whatever the transposition table holds.
C9_PassReturnsSentinel ==
    (last.op \in {"negamax", "mtdf"} /\ PassPosition(agent.id, last.board)) =>
        /\ last.best_move = <<-1, -1>>
        /\ last.board_after = last.board

\* C10: in a game the agent plays with its table persisting from move to move,
\* every move get_move returns in a position where the agent has a legal move
\* is one of the agent's legal moves in that position.
C10_GetMoveLegal ==
    last.op = "get_move" =>
        last.best_move \in SeqToSet(array_get_possible_moves(agent.id, last.board))

\* a move asked for on a table that already holds an entry for the position,
\* written by the search of an earlier move of the game
C10_Witness ==
    /\ last.op = "get_move"
    /\ compute_zobrist_hash(last.board) \in DOMAIN last.table_before
    /\ Len(array_get_possible_moves(agent.id, last.board)) >= 2

\* C26: a call of negamax uses an entry of the transposition table (returns
\* it, narrows alpha or beta with it, or takes its best move as the move to
\* try first) only at a node whose side to move is the side that was to move
\* when the entry was stored
C26_EntryUsedForItsSide ==
    last.op = "negamax" => ~last.foreign

\* the depth-d minimax value, for the agent, of its move in the position b
MoveValue(self, b, move, depth) ==
    -naive_minimax(self, array_flip_tiles(move, self.id, b), depth - 1, -1)

\* mtdf was called in a position where the agent has a legal move
MtdfWithMove ==
    last.op = "mtdf" /\ array_get_possible_moves(agent.id, last.board) # <<>>

\* C27: in a position where the searching side has a legal move, the move
\* mtdf(board, f, d) returns is a legal move whose depth-d minimax value is
\* the value mtdf returns
C27_MtdfMoveHasReturnedValue ==
    MtdfWithMove =>
       /\ last.best_move \in SeqToSet(array_get_possible_moves(agent.id, last.board))
       /\ MoveValue(agent, last.board, last.best_move, agent.depth) = last.value

\* C27: the move mtdf returns in such a position is a legal move
C27_MtdfMoveLegal ==
    MtdfWithMove =>
       last.best_move \in SeqToSet(array_get_possible_moves(agent.id, last.board))

\* C27: when the value mtdf returns is the minimax value of the position, the
\* move it returns has that value
C27_MoveOfCorrectValue ==
    (MtdfWithMove /\ last.value = naive_minimax(agent, last.board, agent.depth, 1)
       /\ last.best_move \in SeqToSet(array_get_possible_moves(agent.id, last.board)))
       => MoveValue(agent, last.board, last.best_move, agent.depth) = last.value

----------------------------------------------------------------------------
(* Properties of the timed search *)

\* C11: when iterative_deepening_timed returns after the depth d >= 2 was cut
\* off by the timeout, the score and move it returns are those the thread of
\* depth d - 1 returned, d - 1 is the depth reached, and the thread of depth d
\* is the last one the call started.
C11_TimedReturnsLastCompleted ==
    (last.op = "iterative_deepening_timed" /\ last.timeout /\ last.reached_depth >= 1) =>
        /\ threads[last.last_thread].stopped
        /\ threads[last.last_thread].depth = last.reached_depth + 1
        /\ threads[last.last_thread - 1].call = last.call
        /\ threads[last.last_thread - 1].depth = last.reached_depth
        /\ ~threads[last.last_thread - 1].stopped
        /\ <<last.value, last.best_move>> = threads[last.last_thread - 1].ret
        /\ \A i \in 1..Len(threads) : threads[i].call = last.call => i <= last.last_thread

\* a call returned after its second depth was cut off when mtdf had made a
\* probe and held another score than the one returned
C11_Witness ==
    /\ last.op = "iterative_deepening_timed"
    /\ last.timeout
    /\ last.reached_depth >= 1
    /\ threads[last.last_thread].partial[3] >= 1
    /\ threads[last.last_thread].partial[1] # last.value

\* C12: a thread that was stopped by func_timeout makes no further probe of the
\* agent's transposition table, and at most one thread running mtdf is alive.
C12_CancelledSearchStops ==
    /\ \A i \in 1..Len(threads) : threads[i].stopped => threads[i].after_stop = 0
    /\ Cardinality({i \in 1..Len(threads) : threads[i].alive}) <= 1

----------------------------------------------------------------------------
(* Properties of the agents and of their copies *)

\* the search state the agent p holds in the heap h: None when it holds none
SearchState(p, h) == IF p.ref = 0 THEN None ELSE <<h[p.ref]>>

\* the search state is empty: no tree, no root, or a table without entries
SearchStateEmpty(p, h) == p.ref = 0 \/ h[p.ref] = EmptyTable

\* C13: the copy of an agent starts from an empty search state that is an
\* object of its own, whatever the original accumulated; no two agents ever
\* hold the same search state object, and a search run by one agent leaves
\* the search state of every other agent as it was.
C13_CopyHasOwnSearchState ==
    /\ (last.op = "copy" /\ ~last.raised) =>
          /\ SearchStateEmpty(players[last.new], heap)
          /\ players[last.new].ref # 0 => players[last.new].ref # players[last.of].ref
          /\ SearchState(players[last.of], heap)
                = SearchState(last.players_before[last.of], last.heap_before)
    /\ \A i, j \in 1..Len(players) :
          (i # j /\ players[i].ref # 0) => players[i].ref # players[j].ref
    /\ last.op = "search" =>
          \A i \in 1..Len(players) :
             i # last.who =>
                SearchState(players[i], heap)
                   = SearchState(last.players_before[i], last.heap_before)

\* C13 witness: the copy of an agent whose search state is not empty has run
\* a search that filled its own search state.
C13_Witness ==
    /\ last.op = "search"
    /\ players[last.who].class = "MinimaxPlayer"
    /\ players[last.who].origin # 0
    /\ ~SearchStateEmpty(players[players[last.who].origin], heap)
    /\ ~SearchStateEmpty(players[last.who], heap)
    /\ SearchState(players[last.who], heap)
          # SearchState(players[players[last.who].origin], heap)

\* the fields that make up the configuration of an agent
Agent_config(p) ==
    [class |-> p.class, depth |-> p.depth, time_limit |-> p.time_limit,
     heuristic |-> p.heuristic, verbose |-> p.verbose,
     nb_iterations |-> p.nb_iterations, c |-> p.c]

\* C14: copy() of an agent succeeds and returns an agent with the same id
\* and the same configuration.
C14_CopySucceedsSameConfig ==
    last.op = "copy" =>
       /\ ~last.raised
       /\ players[last.new].id = players[last.of].id
       /\ Agent_config(players[last.new]) = Agent_config(players[last.of])

\* C15: a search of an MCTS agent that was given both an iteration budget
\* and a time budget, or neither, ends in an error.
C15_ExactlyOneBudget ==
    (/\ last.op = "search"
     /\ players[last.who].class \in {"MCTSAgent", "MCTSAgent_tree"}
     /\ (players[last.who].nb_iterations = None) = (players[last.who].time_limit = None))
       => last.raised

----------------------------------------------------------------------------
(* Properties of the arena of search_tree.py *)

\* the children of the expanded node node_id are all there: one node for each
\* move of its position, in a row below nodes_count, each with node_id as parent
ChildrenComplete(t, node_id) ==
    LET moves == expand_moves(t, node_id)
        first_child_id == t.first_child[node_id]
    IN  /\ t.num_children[node_id] = Len(moves)
        /\ first_child_id + Len(moves) <= t.nodes_count
        /\ \A i \in 1..Len(moves) :
              /\ t.parent[first_child_id + i - 1] = node_id
              /\ t.moves[first_child_id + i - 1] = moves[i]

\* C16: nodes_count never exceeds MAX_NODES; when expand raises because the
\* children of a node do not fit, the arena is as it was before (nodes_count,
\* first_child and num_children of the node included); and every node that
\* has children has all the children of its position.
C16_ArenaWithinCapacity ==
    /\ tree.arena.nodes_count <= MAX_NODES
    /\ (last.op = "iteration" /\ last.raised) =>
          /\ tree.arena.nodes_count = last.before.nodes_count
          /\ tree.arena.first_child[last.expanded] = last.before.first_child[last.expanded]
          /\ tree.arena.num_children[last.expanded] = last.before.num_children[last.expanded]
          /\ tree.arena.first_child[last.expanded] = -1
          /\ tree.arena = last.before
    /\ \A node_id \in NodeIds :
          (node_id < tree.arena.nodes_count /\ tree.arena.first_child[node_id] # -1)
             => ChildrenComplete(tree.arena, node_id)

\* C16 witness: expand raised for a node whose children did not fit although
\* the arena still had free nodes.
C16_Witness ==
    /\ last.op = "iteration"
    /\ last.raised
    /\ last.expanded # tree.arena.root_id
    /\ tree.arena.nodes_count < MAX_NODES
    /\ tree.arena.nodes_count + Len(expand_moves(tree.arena, last.expanded)) > MAX_NODES

\* the node node_id holds a position in which the game is over: the move into
\* it was a pass and its side to move has no legal move
GameOverNode(t, node_id) ==
    /\ node_id < t.nodes_count
    /\ t.parent[node_id] # -1
    /\ t.num_visits[node_id] > 0
    /\ t.moves[node_id] = -1
    /\ tree_moves(node_boards(t, node_id)) = {-1}

\* C20: a node whose position is game-over is reported terminal by
\* is_terminal and never gets children.
C20_GameOverNodeIsTerminal ==
    \A node_id \in NodeIds :
       GameOverNode(tree.arena, node_id) =>
          /\ is_terminal(tree.arena, node_id)
          /\ tree.arena.first_child[node_id] = -1

\* C20, the second half alone: no child is materialized below a game-over node
C20_NoChildBelowGameOver ==
    \A node_id \in NodeIds :
       GameOverNode(tree.arena, node_id) => tree.arena.first_child[node_id] = -1

----------------------------------------------------------------------------
(* Properties of the evaluators *)

\* the discs a move of player flips on the board b
flipped_count(move, player, b) ==
    count_nonzero(array_flip_tiles(move, player, b), player) - count_nonzero(b, player) - 1

\* the value of the board after the move, for the side that made it
value_after(self, b, move) == heuristic(self, array_flip_tiles(move, self.id, b), self.id)

\* C17: negamax at depth 1 with the full window and an empty table returns a
\* legal move whose value, and the value returned, is the maximum over the legal
\* moves of the evaluator's value of the board after the move; with the
\* disc-parity evaluator no legal move flips more discs than the move returned.
C17_DepthOneMaximises ==
    last.op = "negamax" =>
       LET moves == SeqToSet(array_get_possible_moves(last.self.id, last.board))
       IN  /\ last.best_move \in moves
           /\ last.value = value_after(last.self, last.board, last.best_move)
           /\ \A m \in moves : value_after(last.self, last.board, m) <= last.value
           /\ last.self.heuristic = "disk_parity" =>
                 \A m \in moves :
                    flipped_count(m, last.self.id, last.board)
                       <= flipped_count(last.best_move, last.self.id, last.board)

\* C17 witness: with the disc-parity evaluator the move returned flips at
\* least 3 discs while another legal move flips 1, and it is not the first
\* legal move of the board.
C17_Witness ==
    /\ last.op = "negamax"
    /\ last.self.heuristic = "disk_parity"
    /\ flipped_count(last.best_move, last.self.id, last.board) >= 3
    /\ \E m \in SeqToSet(array_get_possible_moves(last.self.id, last.board)) :
          flipped_count(m, last.self.id, last.board) = 1
    /\ last.best_move # array_get_possible_moves(last.self.id, last.board)[1]

\* C18: every evaluator returns, for every board with disjoint masks and
\* either player, an integer v with -32767 < v < 32767.
C18_EvaluatorsInRange ==
    probe.op = "heuristic" =>
       /\ ~probe.raised
       /\ INT16_NEGINF < probe.value
       /\ probe.value < INT16_POSINF

\* C18 without the calls that raise: the values returned are in range
C18_ReturnedValuesInRange ==
    (probe.op = "heuristic" /\ ~probe.raised) =>
       (INT16_NEGINF < probe.value /\ probe.value < INT16_POSINF)

\* C19: disk_parity_heuristic(p, o) returns 100 * (p - o) / (p + o) truncated
\* to an integer, and 0 without an error when p = o = 0.
C19_DiskParityTruncatedQuotient ==
    probe.op = "disk_parity_heuristic" =>
       /\ ~probe.raised
       /\ IF probe.player_disks + probe.opponent_disks = 0
          THEN probe.value = 0
          ELSE LET n == 100 * (probe.player_disks - probe.opponent_disks)
                   d == probe.player_disks + probe.opponent_disks
               IN  /\ Abs(probe.value) * d <= Abs(n)
                   /\ Abs(n) < (Abs(probe.value) + 1) * d
                   /\ probe.value * n >= 0

\* C19 without the call that raises: the value returned is the truncated quotient
C19_QuotientWhereDefined ==
    (probe.op = "disk_parity_heuristic" /\ ~probe.raised) =>
       LET n == 100 * (probe.player_disks - probe.opponent_disks)
           d == probe.player_disks + probe.opponent_disks
       IN  /\ Abs(probe.value) * d <= Abs(n)
           /\ Abs(n) < (Abs(probe.value) + 1) * d
           /\ probe.value * n >= 0

\* the nodes from node_id up to the root, node_id first
RECURSIVE PathToRoot(_, _)
PathToRoot(t, node_id) ==
    IF node_id = -1 THEN <<>> ELSE <<node_id>> \o PathToRoot(t, t.parent[node_id])

\* the reward of the ply k of a path, r at its first node and the sign
\* alternating from there
AlternatingReward(r, k) == IF k % 2 = 1 THEN r ELSE -r

\* a completed iteration of search: backup(selected, node, -reward) gave the arena
BackupDone == tree.pc = "searching" /\ last.op = "iteration" /\ ~last.raised

\* C22 (as stated): backup(tree, n, r) adds one to the visit count of exactly
\* the nodes on the path from n to the root and adds to the reward of the node
\* at ply k of it the reward with its sign alternating, r at n, -r at its
\* parent; the other nodes are unchanged
C22_BackupAddsAlternatingReward ==
    BackupDone =>
       LET path == PathToRoot(last.selected, last.node)
       IN  /\ \A k \in 1..Len(path) :
                /\ tree.arena.num_visits[path[k]] = last.selected.num_visits[path[k]] + 1
                /\ tree.arena.reward[path[k]]
                      = last.selected.reward[path[k]] + AlternatingReward(-last.reward, k)
           /\ \A i \in NodeIds \ SeqToSet(path) :
                /\ tree.arena.num_visits[i] = last.selected.num_visits[i]
                /\ tree.arena.reward[i] = last.selected.reward[i]

\* C22 (amended): backup(tree, n, r) adds one to the visit count of exactly the
\* nodes on the path from n to the root, and adds one to the reward of the
\* nodes of the path where the alternating reward is 1, leaving the reward
\* of the others as it was; nothing else of the tree changes
C22_BackupCountsWins ==
    BackupDone =>
       LET path == PathToRoot(last.selected, last.node)
       IN  /\ \A k \in 1..Len(path) :
                /\ tree.arena.num_visits[path[k]] = last.selected.num_visits[path[k]] + 1
                /\ tree.arena.reward[path[k]]
                      = last.selected.reward[path[k]]
                        + (IF AlternatingReward(-last.reward, k) = 1 THEN 1 ELSE 0)
           /\ \A i \in NodeIds \ SeqToSet(path) :
                /\ tree.arena.num_visits[i] = last.selected.num_visits[i]
                /\ tree.arena.reward[i] = last.selected.reward[i]
           /\ tree.arena = [last.selected EXCEPT !.num_visits = tree.arena.num_visits,
                                                 !.reward = tree.arena.reward]

\* C22: a backup from a node two plies below the root that leaves a visited
\* node off its path, with a win counted on the path and a ply without one
C22_Witness ==
    /\ BackupDone
    /\ Len(PathToRoot(last.selected, last.node)) >= 3
    /\ \E i \in 0..(tree.arena.nodes_count - 1) :
          /\ i \notin SeqToSet(PathToRoot(last.selected, last.node))
          /\ tree.arena.num_visits[i] > 0
    /\ \E i \in SeqToSet(PathToRoot(last.selected, last.node)) :
          tree.arena.reward[i] = last.selected.reward[i] + 1
    /\ \E i \in SeqToSet(PathToRoot(last.selected, last.node)) :
          tree.arena.reward[i] = last.selected.reward[i]

\* the discs a playout ends with: of the side to move at the node it started
\* from, and of the other side.  initial_player_color is 1 at the end exactly
\* when the boards are in the order of the start
PlayoutDiscs(playout) ==
    IF playout.initial_player_color = 1
    THEN <<count_ones(playout.current_player_bb), count_ones(playout.opponent_bb)>>
    ELSE <<count_ones(playout.opponent_bb), count_ones(playout.current_player_bb)>>

\* default_policy has returned
RolloutDone == last.op = "default_policy"

\* C23: the reward of default_policy for a node is decided by the final disc
\* counts of the side to move at the node and of the other side: the win
\* value 1 when it has strictly more, the loss value -1 when it has strictly
\* fewer, and a value that is neither when the counts are equal
C23_RewardByFinalCounts ==
    RolloutDone =>
       LET d == PlayoutDiscs(last.playout)
       IN  /\ d[1] > d[2] => last.reward = 1
           /\ d[1] < d[2] => last.reward = -1
           /\ d[1] = d[2] => last.reward \notin {1, -1}

\* C23: the reward of a playout that does not end in a draw is 1 when the
\* side to move at the node has more discs and -1 when it has fewer
C23_RewardOfDecidedPlayout ==
    RolloutDone =>
       LET d == PlayoutDiscs(last.playout)
       IN  /\ d[1] > d[2] => last.reward = 1
           /\ d[1] < d[2] => last.reward = -1

\* C23: a playout ending in a draw is rewarded as a loss
C23_DrawIsNeverALoss ==
    RolloutDone =>
       LET d == PlayoutDiscs(last.playout) IN d[1] = d[2] => last.reward # -1

\* C23: a playout ending in a draw is rewarded as a win
C23_DrawIsNeverAWin ==
    RolloutDone =>
       LET d == PlayoutDiscs(last.playout) IN d[1] = d[2] => last.reward # 1

\* the arena indices of the children of the node node_id, once it is expanded
ChildBlock(t, node_id) ==
    t.first_child[node_id]..(t.first_child[node_id] + t.num_children[node_id] - 1)

\* the nodes of the tree that were expanded
ExpandedNodes(t) == {n \in 0..(t.nodes_count - 1) : t.first_child[n] # -1}

\* C24: during a search, the children of every expanded node n are exactly
\* the arena indices first_child[n] .. first_child[n] + num_children[n] - 1,
\* each with parent n and with the move it was created with (the moves of n
\* in their order); the blocks of different nodes are disjoint and below
\* nodes_count; and an iteration changes neither first_child and num_children
\* of a node expanded before it nor the parent and the move of a node that
\* existed before it
C24_ChildrenContiguousAndStable ==
    (tree.pc \in {"searching", "raised"}) =>
       LET t == tree.arena
       IN  /\ \A n \in ExpandedNodes(t) :
                /\ t.num_children[n] >= 1
                /\ ChildBlock(t, n) \subseteq 1..(t.nodes_count - 1)
                /\ ChildBlock(t, n) = {c \in 0..(t.nodes_count - 1) : t.parent[c] = n}
                /\ expand_moves(t, n) = [k \in 1..t.num_children[n] |->
                                            t.moves[t.first_child[n] + k - 1]]
           /\ \A n, m \in ExpandedNodes(t) :
                n # m => ChildBlock(t, n) \cap ChildBlock(t, m) = {}
           /\ last.op = "iteration" =>
                /\ \A n \in ExpandedNodes(last.before) :
                      /\ t.first_child[n] = last.before.first_child[n]
                      /\ t.num_children[n] = last.before.num_children[n]
                /\ \A c \in 1..(last.before.nodes_count - 1) :
                      /\ t.parent[c] = last.before.parent[c]
                      /\ t.moves[c] = last.before.moves[c]
                /\ t.nodes_count >= last.before.nodes_count

\* C24: an iteration has expanded a node below the root into a block of its
\* own, next to the block of the root expanded before
C24_Witness ==
    /\ tree.pc = "searching"
    /\ last.op = "iteration"
    /\ ~last.raised
    /\ last.expanded # tree.arena.root_id
    /\ last.expanded \notin ExpandedNodes(last.before)
    /\ last.expanded \in ExpandedNodes(tree.arena)
    /\ tree.arena.root_id \in ExpandedNodes(last.before)
    /\ \E n \in ExpandedNodes(tree.arena) : tree.arena.num_children[n] >= 2

\* an iteration whose tree_policy ended in expand on a node whose side to
\* move had no legal move: the node selected has the move -1
PassExpanded ==
    /\ last.op = "iteration"
    /\ ~last.raised
    /\ last.expanded # -1
    /\ last.selected.moves[last.node] = -1

\* C28 (as stated): expand applied to a node whose side to move has no legal
\* move creates exactly one child, with move -1, whose player board is the
\* opponent board of the parent and whose opponent board is the player board
\* of the parent
C28_PassChildExchangesSides ==
    PassExpanded =>
       LET t == last.selected
       IN  /\ t.num_children[last.expanded] = 1
           /\ t.first_child[last.expanded] = last.node
           /\ t.player_boards[last.node] = t.opponent_boards[last.expanded]
           /\ t.opponent_boards[last.node] = t.player_boards[last.expanded]

\* C28: the node without a legal move has exactly one child, with move -1
C28_PassChildIsOnly ==
    PassExpanded =>
       /\ tree_moves(node_boards(last.selected, last.expanded)) = {-1}
       /\ last.selected.num_children[last.expanded] = 1
       /\ last.selected.first_child[last.expanded] = last.node

\* C28: the child of the pass holds the boards of its parent in the order of
\* the parent, the side without a move is to move again
C28_PassChildKeepsBoards ==
    PassExpanded =>
       node_boards(last.selected, last.node) = node_boards(last.selected, last.expanded)

\* the sum of the visit counts of the nodes first..last of the arena
RECURSIVE SumVisits(_, _, _)
SumVisits(t, first, last_id) ==
    IF first > last_id THEN 0
    ELSE t.num_visits[first] + SumVisits(t, first + 1, last_id)

\* the sum of the visit counts of the children of the node node_id
ChildrenVisits(t, node_id) ==
    IF t.first_child[node_id] = -1 THEN 0
    ELSE SumVisits(t, t.first_child[node_id],
                   t.first_child[node_id] + t.num_children[node_id] - 1)

\* the search is between two iterations, or has returned: every iteration
\* begun was completed
IterationsCompleted ==
    \/ tree.pc = "searching"
    \/ tree.pc = "idle" /\ last.op = "search"

\* C30: after every completed iteration of search, the visit count of the
\* root is the number of iterations completed and the sum of the visit counts
\* of its children; for every node the visit counts of its children sum to
\* at most its own, and its reward is between 0 and its visit count
C30_VisitCountsConsistent ==
    IterationsCompleted =>
       LET t == tree.arena
       IN  /\ t.num_visits[t.root_id] = tree.done
           /\ t.num_visits[t.root_id] = ChildrenVisits(t, t.root_id)
           /\ \A n \in 0..(t.nodes_count - 1) :
                /\ ChildrenVisits(t, n) <= t.num_visits[n]
                /\ 0 <= t.reward[n]
                /\ t.reward[n] <= t.num_visits[n]

\* C30: three iterations or more are completed, a node below the root has a
\* visited child, a node has a reward and a node has fewer rewards than visits
C30_Witness ==
    /\ IterationsCompleted
    /\ tree.done >= 3
    /\ tree.arena.num_visits[tree.arena.root_id] = tree.done
    /\ \E n \in 1..(tree.arena.nodes_count - 1) : ChildrenVisits(tree.arena, n) >= 1
    /\ \E n \in 0..(tree.arena.nodes_count - 1) : tree.arena.reward[n] >= 1
    /\ \E n \in 0..(tree.arena.nodes_count - 1) :
          tree.arena.reward[n] < tree.arena.num_visits[n]

(* Properties of the game loops *)

\* a turn of a game loop was just made: a player returned last.move at
\* last.board, and no pass was made since
TurnDone == last.op = "turn" /\ passes_in_row = last.passes

\* the value returned is one of the legal moves of the player to move
ReturnedLegal ==
    last.move \in SeqToSet(array_get_possible_moves(last.player, last.board))

\* C29 (as stated): the game loops apply the move a player returned only when
\* that (row, col) is one of the legal moves of the player to move; for any
\* other value returned the board and the player to move are unchanged
C29_AppliedOnlyIfLegal ==
    (TurnDone /\ ~ReturnedLegal) => (board = last.board /\ current_player = last.player)

\* C29: a legal move returned is applied once, and the other player is to move
C29_LegalMoveApplied ==
    (TurnDone /\ ReturnedLegal) =>
       /\ board = array_flip_tiles(last.move, last.player, last.board)
       /\ current_player = 3 - last.player

\* C29: None and (-1, -1) leave the board and the player to move unchanged
C29_NoneLeavesBoard ==
    (TurnDone /\ last.move \in {<<>>, <<-1, -1>>}) =>
       (board = last.board /\ current_player = last.player)

\* C29: a square that shares neither its row nor its column with a legal
\* move leaves the board and the player to move unchanged
C29_UnrelatedSquareLeavesBoard ==
    (TurnDone /\ last.move # <<>>
       /\ \A m \in SeqToSet(array_get_possible_moves(last.player, last.board)) :
             m[1] # last.move[1] /\ m[2] # last.move[2])
       => (board = last.board /\ current_player = last.player)

(* Properties of func_timeout *)

\* C25: func_timeout returns the value func returned when func completed
\* before the timeout passed, and raises FunctionTimedOut only when the
\* timeout passed while func was running: not when func raised an error of
\* its own within the time limit
C25_TimedOutOnlyAfterTimeout ==
    timed.pc = "done" =>
       /\ (timed.completed_in_time /\ timed.func.ends = "return")
             => (timed.outcome = "return" /\ timed.value = timed.func.value)
       /\ timed.outcome = "FunctionTimedOut" => timed.elapsed

\* C25: func_timeout returns the value func returned when func completed
\* before the timeout passed
C25_ReturnsValueInTime ==
    timed.pc = "done" =>
       ((timed.completed_in_time /\ timed.func.ends = "return")
          => (timed.outcome = "return" /\ timed.value = timed.func.value))

\* C25: FunctionTimedOut is raised only when the timeout passed while func was
\* running or when func raised an Exception of its own
C25_TimedOutOrFuncRaised ==
    timed.pc = "done" =>
       (timed.outcome = "FunctionTimedOut"
          => (timed.elapsed \/ (timed.func.ends = "Exception" /\ timed.completed_in_time)))

(* Properties of the nodes of agents/mcts.py *)

\* C21: MCTSNode.is_terminal returns true for a node exactly when neither
\* side has a legal move on the board of the node, at every point of a search,
\* whether none or all of the moves of the node were expanded
C21_IsTerminalIffNoMoves ==
    tree.pc = "searching" =>
       \A i \in 1..Len(tree.nodes) :
          MCTSNode_is_terminal(tree.nodes[i]).ret
             <=> /\ array_get_possible_moves(tree.nodes[i].player_id, tree.nodes[i].board) = <<>>
                 /\ array_get_possible_moves(3 - tree.nodes[i].player_id, tree.nodes[i].board) = <<>>

\* C21: is_terminal is exact for every node that still has an untried move
\* or whose board leaves no move to either side
C21_IsTerminalWhileUntried ==
    tree.pc = "searching" =>
       \A i \in 1..Len(tree.nodes) :
          (\/ tree.nodes[i].untried_moves = None
           \/ tree.nodes[i].untried_moves[1] # <<>>
           \/ array_get_possible_moves(tree.nodes[i].player_id, tree.nodes[i].board) = <<>>)
          => (MCTSNode_is_terminal(tree.nodes[i]).ret
                <=> /\ array_get_possible_moves(tree.nodes[i].player_id, tree.nodes[i].board) = <<>>
                    /\ array_get_possible_moves(3 - tree.nodes[i].player_id, tree.nodes[i].board) = <<>>)

====
